---- MODULE Spec2Model ----
(***************************************************************************)
(* Request runtime of the SDK: the error taxonomy (core/errors.ts), the    *)
(* retry/backoff controller withRateLimit (core/rate-limiting.ts, held in  *)
(* src/src/core/observability.ts from line 298 on), the observability sink *)
(* (core/observability.ts) and the client's request pipeline (client.ts,   *)
(* held in src/src/index.ts from line 20 on).                              *)
(*                                                                         *)
(* Ten specifications:                                                     *)
(*   SpecRL  withRateLimit driven by an arbitrary operation fn;            *)
(*   SpecPol the same under policies with a negative maxRetries;           *)
(*   SpecErr parseApiError applied to one response;                        *)
(*   SpecVer buildVersionedPath and versionSpecific (core/versioning.ts,   *)
(*           held in src/src/core/module-loader.ts from line 38 on);       *)
(*   SpecMod the module registry, the construction of clients and          *)
(*           module() (core/module-loader.ts, src/unnamed/part_001);       *)
(*   SpecAn  the analytics modules of two clients and the sink they share  *)
(*           (modules/analytics.ts, held in src/unnamed/part_002);         *)
(*   SpecQ   the event queue of one analytics module: arrivals, flushes    *)
(*           in flight and the flush timer;                                *)
(*   SpecObs the sink alone, configured and emitting events;               *)
(*   SpecIds the calls of Spec among the other apiRequest calls of the     *)
(*           process, which share the operation counter;                   *)
(*   Spec    SupaSDKClient.apiRequest calls interleaved with setAuthToken  *)
(*           and setApiVersion on the event loop.  An apiRequest call      *)
(*           reads this.authToken, this.apiVersion and the sink's config   *)
(*           and writes nothing another call reads but the operation       *)
(*           counter, which it increments before its first await; so Spec  *)
(*           keeps one call in flight at a time and lets the setters run   *)
(*           at each of its suspension points.  SpecIds adds the counter   *)
(*           increments of the calls made meanwhile.                       *)
(***************************************************************************)
EXTENDS Integers, Sequences, FiniteSets, TLC

(***************************************************************************)
(* Bounds of the model.                                                    *)
(***************************************************************************)
\* largest maxRetries a policy passed to withRateLimit / the client carries
MaxRetriesBound == 2
\* number of apiRequest calls a behaviour of Spec may start
MaxCalls == 2
\* number of setAuthToken / setApiVersion calls a behaviour of Spec may make
MaxSets == 1
\* number of clients a behaviour of SpecMod constructs
MaxClients == 2
\* number of initialize calls made on one analytics module
MaxHandlers == 2
\* number of calls the sink makes to telemetry handlers in a behaviour of SpecObs
MaxDeliveries == 3
\* number of events an analytics module takes in a behaviour of SpecQ
MaxEvents == 3
\* the largest number of seconds a retry-after header holds
MaxRetryAfter == 12
\* the largest number of characters of a logical path
MaxPathLen == 3

(***************************************************************************)
(* Optional values: a JavaScript value that may be undefined.              *)
(***************************************************************************)
None == <<>>
Some(x) == <<x>>
IsSome(o) == Len(o) > 0
\* JavaScript truthiness of an optional number: undefined and 0 are falsy
TruthyNum(o) == IsSome(o) /\ o[1] # 0

\* { ...f, ...g } : the object spread, a key of g wins
Merge(f, g) ==
    [ k \in (DOMAIN f) \cup (DOMAIN g) |-> IF k \in DOMAIN g THEN g[k] ELSE f[k] ]

(***************************************************************************)
(* core/errors.ts : the error taxonomy.                                    *)
(***************************************************************************)
ErrorCode ==
    { "unknown_error", "network_error", "timeout_error",
      "unauthorized", "forbidden", "token_expired",
      "invalid_parameters", "resource_not_found", "conflict",
      "rate_limited", "server_error",
      "configuration_error", "module_not_found" }

\* new SDKError(message, code, {status, details, requestId, retryable});
\* retryable is optional and defaults to false (options.retryable ?? false)
SDKError(message, code, status, details, requestId, retryable) ==
    [ cls       |-> "SDKError",
      message   |-> message,
      code      |-> code,
      status    |-> status,
      details   |-> details,
      requestId |-> requestId,
      retryable |-> IF IsSome(retryable) THEN retryable[1] ELSE FALSE ]

\* new NetworkError(message, {details, requestId})
NetworkError(message, details, requestId) ==
    [ SDKError(message, "network_error", None, details, requestId, Some(TRUE))
        EXCEPT !.cls = "NetworkError" ]

\* new AuthError(message, code, {status, details, requestId})
AuthError(message, code, status, details, requestId) ==
    [ SDKError(message, code, status, details, requestId,
               Some(code = "token_expired"))
        EXCEPT !.cls = "AuthError" ]

\* new RateLimitError(message, {status, details, requestId, retryAfter})
RateLimitError(message, status, details, requestId, retryAfter) ==
    [ cls        |-> "RateLimitError",
      message    |-> message,
      code       |-> "rate_limited",
      status     |-> status,
      details    |-> details,
      requestId  |-> requestId,
      retryable  |-> TRUE,
      retryAfter |-> retryAfter ]

\* an exception that is no SDKError (TypeError of fetch, SyntaxError of
\* JSON parsing, a plain Error): it has neither a code nor a retryable flag
RawError(name, message) == [ cls |-> name, message |-> message ]

SDKErrorClasses == { "SDKError", "NetworkError", "AuthError", "RateLimitError" }

\* error instanceof SDKError
IsSDKError(e) == e.cls \in SDKErrorClasses

\* error instanceof RateLimitError
IsRateLimitError(e) == e.cls = "RateLimitError"

\* the retryable flag of a thrown value (undefined, hence falsy, on a raw one)
RetryableFlag(e) == "retryable" \in DOMAIN e /\ e.retryable

\* the code of a thrown value
CodeOf(e) == IF "code" \in DOMAIN e THEN e.code ELSE "undefined"

(***************************************************************************)
(* core/rate-limiting.ts : the retry/backoff controller.                   *)
(* Durations are in milliseconds; the jitter fraction and the value of     *)
(* Math.random() are carried in percent (0.1 is 10).                       *)
(***************************************************************************)
RateLimitKeys == { "enableRetry", "maxRetries", "baseDelay", "maxDelay", "jitter" }

DEFAULT_RATE_LIMIT_CONFIG ==
    [ enableRetry |-> TRUE,
      maxRetries  |-> 3,
      baseDelay   |-> 1000,
      maxDelay    |-> 30000,
      jitter      |-> 10 ]

\* { ...DEFAULT_RATE_LIMIT_CONFIG, ...config } : a key of config wins
finalConfig(config) ==
    [ k \in RateLimitKeys |->
        IF k \in DOMAIN config THEN config[k] ELSE DEFAULT_RATE_LIMIT_CONFIG[k] ]

RECURSIVE Pow2(_)
Pow2(n) == IF n <= 0 THEN 1 ELSE 2 * Pow2(n - 1)

Min(a, b) == IF a <= b THEN a ELSE b

\* mutant of expDelay: the cap is forgotten
expDelay_NoCap(cfg, attempt) == cfg.baseDelay * Pow2(attempt - 1)

\* Math.min(baseDelay * Math.pow(2, attempt - 1), maxDelay)
expDelay(cfg, attempt) == Min(cfg.baseDelay * Pow2(attempt - 1), cfg.maxDelay)

\* expDelay * (1 - jitter + Math.random() * (2 * jitter)), rnd = Math.random()
delay(cfg, attempt, rnd) ==
    (expDelay(cfg, attempt) * (10000 - 100 * cfg.jitter + rnd * 2 * cfg.jitter))
        \div 10000

\* error.retryAfter ? error.retryAfter * 1000 : delay
retryAfterMs(error, d) ==
    IF "retryAfter" \in DOMAIN error /\ TruthyNum(error.retryAfter)
    THEN error.retryAfter[1] * 1000
    ELSE d

\* the mutants of ShouldRetry used by the claims
ShouldRetry_ByFlag(error, cfg, attempt) ==
    RetryableFlag(error) /\ cfg.enableRetry /\ attempt < cfg.maxRetries

ShouldRetry_ByCode(error, cfg, attempt) ==
    CodeOf(error) = "rate_limited" /\ cfg.enableRetry /\ attempt < cfg.maxRetries

ShouldRetry_OneLess(error, cfg, attempt) ==
    IsRateLimitError(error) /\ cfg.enableRetry /\ attempt + 1 < cfg.maxRetries

ShouldRetry_IgnoreEnable(error, cfg, attempt) ==
    IsRateLimitError(error) /\ attempt < cfg.maxRetries

\* the condition of the catch block: retry or re-throw
ShouldRetry(error, cfg, attempt) ==
    /\ IsRateLimitError(error)
    /\ cfg.enableRetry
    /\ attempt < cfg.maxRetries

\* mutant of Rethrown: the remembered error instead of the caught one
Rethrown_Remembered(ctl, error) ==
    IF IsSome(ctl.lastError) THEN ctl.lastError[1] ELSE error

\* throw error : the value the catch block re-throws
Rethrown(ctl, error) == error

\* lastError?.details?.rateLimit
RateLimitOf(lastError) ==
    IF /\ IsSome(lastError)
       /\ "details" \in DOMAIN lastError[1]
       /\ IsSome(lastError[1].details)
       /\ "rateLimit" \in DOMAIN lastError[1].details[1]
    THEN lastError[1].details[1].rateLimit
    ELSE None

\* the controller of one withRateLimit call, before it is called
IdleController ==
    [ pc        |-> "idle",
      cfg       |-> DEFAULT_RATE_LIMIT_CONFIG,
      attempt   |-> 0,
      lastError |-> None,
      wait      |-> 0,
      outcome   |-> None ]

\* the head of the while loop: call fn once more, or fall out of the loop
\* onto the trailing throw new Error(...)
LoopHead(ctl) ==
    IF ctl.attempt <= ctl.cfg.maxRetries
    THEN [ ctl EXCEPT !.pc = "calling", !.wait = 0 ]
    ELSE [ ctl EXCEPT !.pc = "thrown", !.wait = 0,
             !.outcome = Some(RawError("Error",
                              "Rate limit exceeded after maximum retries")) ]

\* withRateLimit(fn, config) up to its first await
withRateLimit(config) ==
    LoopHead([ IdleController EXCEPT !.cfg = finalConfig(config) ])

\* await fn() resolved with result
FnResolved(ctl, result) ==
    [ ctl EXCEPT !.pc = "returned",
                 !.outcome = Some([ result    |-> result,
                                     rateLimit |-> RateLimitOf(ctl.lastError) ]) ]

\* await fn() rejected with error: the catch block
FnRejected(ctl, error, rnd) ==
    IF ShouldRetry(error, ctl.cfg, ctl.attempt)
    THEN [ ctl EXCEPT !.lastError = Some(error),
                      !.attempt = ctl.attempt + 1,
                      !.pc = "waiting",
                      !.wait = retryAfterMs(error,
                                   delay(ctl.cfg, ctl.attempt + 1, rnd)) ]
    ELSE [ ctl EXCEPT !.pc = "thrown",
                      !.outcome = Some(Rethrown(ctl, error)) ]

\* the setTimeout of the backoff fired: continue
BackoffDone(ctl) == LoopHead(ctl)

(***************************************************************************)
(* core/versioning.ts.  A path is a sequence of characters; the version    *)
(* tag is carried as one element.                                          *)
(***************************************************************************)
DEFAULT_API_VERSION == "v1"

ApiVersions == { "v1", "v2" }

\* path.startsWith('/')
StartsWithSlash(path) == Len(path) > 0 /\ path[1] = "/"

\* `/${version}${normalizedPath}`
buildVersionedPath(path, version) ==
    LET normalizedPath == IF StartsWithSlash(path) THEN path ELSE << "/" >> \o path
    IN  << "/", version >> \o normalizedPath

\* what a dispatch did: the implementations it ran, in order, and how it ended
Ran(impl) == [ ran |-> << impl >>, ok |-> TRUE, value |-> impl ]
RanNothing(error) == [ ran |-> << >>, ok |-> FALSE, error |-> error ]

\* versionSpecific(version, handlers, fallback): handlers maps some versions
\* to "fn" (a function) or "undefined"; fallback is optional
versionSpecific(version, handlers, fallback) ==
    LET handler == IF version \in DOMAIN handlers THEN handlers[version]
                   ELSE "undefined"
    IN  IF handler # "undefined" THEN Ran(<< "handler", version >>)
        ELSE IF IsSome(fallback) THEN Ran(<< "fallback" >>)
        ELSE RanNothing(RawError("Error",
                 "No handler found for API version " \o version))

(***************************************************************************)
(* core/errors.ts : parseApiError.                                         *)
(* A response is [status, statusText, body, headers]; a text (a body, or   *)
(* the responseText argument) is [kind |-> "json", data |-> <a record>]    *)
(* when JSON.parse yields an object, [kind |-> "null"] when it yields      *)
(* null, and [kind |-> "text", text |-> <string>] when JSON.parse throws.  *)
(* A header value is a sequence of characters.                             *)
(***************************************************************************)
\* obj.key, undefined when the key is missing
Field(obj, key) == IF key \in DOMAIN obj THEN Some(obj[key]) ELSE None

\* a || b on optional strings: the empty string and undefined are falsy
OrElse(a, b) == IF IsSome(a) /\ a[1] # "" THEN a ELSE b

DigitOf ==
    ("0" :> 0) @@ ("1" :> 1) @@ ("2" :> 2) @@ ("3" :> 3) @@ ("4" :> 4) @@
    ("5" :> 5) @@ ("6" :> 6) @@ ("7" :> 7) @@ ("8" :> 8) @@ ("9" :> 9)

\* the value of the digits of s from position i on, up to the first character
\* that is no digit; acc is the value read so far
RECURSIVE ReadDigits(_, _, _)
ReadDigits(s, i, acc) ==
    IF i <= Len(s) /\ s[i] \in DOMAIN DigitOf
    THEN ReadDigits(s, i + 1, 10 * acc + DigitOf[s[i]])
    ELSE acc

RECURSIVE SkipSpaces(_, _)
SkipSpaces(s, i) == IF i <= Len(s) /\ s[i] = " " THEN SkipSpaces(s, i + 1) ELSE i

\* parseInt(s, 10): leading blanks, an optional sign, then decimal digits up
\* to the first other character; None is NaN (no digit where one must be)
parseInt(s) ==
    LET i == SkipSpaces(s, 1)
        signed == i <= Len(s) /\ s[i] \in { "-", "+" }
        j == IF signed THEN i + 1 ELSE i
    IN  IF j <= Len(s) /\ s[j] \in DOMAIN DigitOf
        THEN Some(IF signed /\ s[i] = "-" THEN 0 - ReadDigits(s, j, 0)
                  ELSE ReadDigits(s, j, 0))
        ELSE None

\* mapHttpStatusToErrorCode(status, apiCode)
mapHttpStatusToErrorCode(status, apiCode) ==
    IF IsSome(apiCode) /\ apiCode[1] \in ErrorCode
    THEN apiCode[1]
    ELSE CASE status = 400 -> "invalid_parameters"
           [] status = 401 -> "unauthorized"
           [] status = 403 -> "forbidden"
           [] status = 404 -> "resource_not_found"
           [] status = 409 -> "conflict"
           [] status = 429 -> "rate_limited"
           [] status \in { 500, 502, 503, 504 } -> "server_error"
           [] OTHER -> "unknown_error"

\* isRetryableStatus(status)
isRetryableStatus(status) == status = 429 \/ (status >= 500 /\ status < 600)

\* response.headers.get(name)
HeaderOf(response, name) == Field(response.headers, name)

\* a header value that is truthy: present and not the empty string
TruthyText(o) == IsSome(o) /\ Len(o[1]) > 0

\* extractRateLimitInfo(headers): undefined when none of the three headers
\* is there, else what parseInt makes of each that is.  makeRequest calls it
\* on every answer (client.ts) and does nothing with what it returns.
extractRateLimitInfo(headers) ==
    LET remaining == Field(headers, "x-ratelimit-remaining")
        limit == Field(headers, "x-ratelimit-limit")
        reset == Field(headers, "x-ratelimit-reset")
    IN  IF ~TruthyText(remaining) /\ ~TruthyText(limit) /\ ~TruthyText(reset)
        THEN None
        ELSE Some([ remaining |-> IF TruthyText(remaining) THEN parseInt(remaining[1]) ELSE None,
                    limit     |-> IF TruthyText(limit) THEN parseInt(limit[1]) ELSE None,
                    resetAt   |-> IF TruthyText(reset) THEN parseInt(reset[1]) ELSE None ])

\* the catch branch of parseApiError: the body is no JSON
parseApiErrorFallback(response, responseText) ==
    SDKError(
        IF IsSome(responseText) /\ responseText[1] # ""
        THEN responseText[1]
        ELSE "API error: " \o ToString(response.status) \o " " \o response.statusText,
        mapHttpStatusToErrorCode(response.status, None),
        Some(response.status),
        Some([ rawError |-> responseText ]),
        HeaderOf(response, "x-request-id"),
        Some(isRetryableStatus(response.status)))

\* the try branch of parseApiError: errorData is the parsed body
parseApiErrorJson(response, errorData) ==
    LET message == OrElse(Field(errorData, "message"),
                     OrElse(Field(errorData, "error"), Some("API error occurred")))[1]
        code == mapHttpStatusToErrorCode(response.status, Field(errorData, "code"))
        requestId == OrElse(HeaderOf(response, "x-request-id"),
                            Field(errorData, "requestId"))
        hdr == HeaderOf(response, "retry-after")
        parsed == parseInt(IF IsSome(hdr) /\ Len(hdr[1]) > 0 THEN hdr[1] ELSE << "0" >>)
        retryAfter == IF TruthyNum(parsed) THEN parsed ELSE None
    IN  IF response.status = 429
        THEN RateLimitError(message, Some(response.status), Some(errorData),
                            requestId, retryAfter)
        ELSE IF response.status \in { 401, 403 }
        THEN AuthError(message, code, Some(response.status), Some(errorData), requestId)
        ELSE SDKError(message, code, Some(response.status), Some(errorData),
                      requestId, Some(isRetryableStatus(response.status)))

\* a text that is truthy: not the empty string
NonEmptyText(t) == ~(t.kind = "text" /\ t.text = "")

\* the characters of a text JSON.parse does not turn into an object
TextOf(t) ==
    CASE t.kind = "text" -> t.text
      [] t.kind = "null" -> "null"

\* parseApiError(response, responseText): the text parsed is
\* responseText || await response.text(); the catch branch is taken when
\* JSON.parse throws, and when it yields null (errorData.message then throws)
parseApiError(response, responseText) ==
    LET given == IsSome(responseText) /\ NonEmptyText(responseText[1])
        errorText == IF given THEN responseText[1] ELSE response.body
    IN  IF errorText.kind = "json"
        THEN parseApiErrorJson(response, errorText.data)
        ELSE parseApiErrorFallback(response,
                 IF IsSome(responseText) THEN Some(TextOf(responseText[1]))
                 ELSE None)

(***************************************************************************)
(* core/observability.ts : the telemetry sink.                             *)
(* A telemetry handler is "ok" (returns) or "throws"; None is no handler.  *)
(***************************************************************************)
DEFAULT_CONFIG ==
    [ enableLogging   |-> TRUE,
      logLevel        |-> "info",
      enableTelemetry |-> FALSE,
      telemetryHandler |-> None ]

\* the log levels, lowest first
LogLevels == << "debug", "info", "warn", "error" >>
LevelIndex(level) == CHOOSE i \in 1..Len(LogLevels) : LogLevels[i] = level

\* log(level, message, data) under config cfg: the call, and whether a record
\* is written (logging is on and the level passes the configured one).  A
\* message is the sequence of its parts.  The data of a log call is tagged
\* with what it is: nothing, an object of string fields, the payload of a
\* request, an error, an event, or the { error, event } of a handler failure.
log(cfg, level, message, data) ==
    [ op |-> "log", level |-> level, message |-> message, data |-> data,
      written |-> cfg.enableLogging # FALSE
                    /\ LevelIndex(level) >= LevelIndex(cfg.logLevel) ]

NoData == [ kind |-> "undefined" ]
ObjectData(fields) == [ kind |-> "object", fields |-> fields ]
ErrorData(error) == [ kind |-> "error", error |-> error ]
EventData(event) == [ kind |-> "event", event |-> event ]

\* what a throwing telemetry handler throws
HandlerError == RawError("Error", "telemetry handler failed")

\* mutant of emitEvent: the handler is called outside any try block
emitEvent_NoCatch(cfg, event) ==
    IF cfg.enableTelemetry # TRUE THEN [ sink |-> "dropped", logs |-> << >> ]
    ELSE IF IsSome(cfg.telemetryHandler)
         THEN IF cfg.telemetryHandler[1] = "throws"
              THEN [ sink |-> "handlerEscaped", logs |-> << >> ]
              ELSE [ sink |-> "handled", logs |-> << >> ]
         ELSE [ sink |-> "logged",
                logs |-> << log(cfg, "debug", << "SDK Event" >>, EventData(event)) >> ]

\* emitEvent(event) under config cfg: what the sink does with the event,
\* "dropped" (telemetry off), "handled", "handlerThrew" (caught and logged)
\* or "logged" (no handler), and the log calls it makes.  "handlerEscaped"
\* stands for the handler's error thrown out of emitEvent.
emitEvent(cfg, event) ==
    IF cfg.enableTelemetry # TRUE THEN [ sink |-> "dropped", logs |-> << >> ]
    ELSE IF IsSome(cfg.telemetryHandler)
         THEN IF cfg.telemetryHandler[1] = "throws"
              THEN [ sink |-> "handlerThrew",
                     logs |-> << log(cfg, "error", << "Error in telemetry handler" >>,
                                     [ kind |-> "handlerError", error |-> HandlerError,
                                       event |-> event ]) >> ]
              ELSE [ sink |-> "handled", logs |-> << >> ]
         ELSE [ sink |-> "logged",
                logs |-> << log(cfg, "debug", << "SDK Event" >>, EventData(event)) >> ]

\* mutant of generateOperationId: the counter is read, not incremented
generateOperationId_NoIncrement(counter) == [ counter |-> counter, id |-> counter ]

\* generateOperationId(): `op_${Date.now()}_${++this.operationCounter}`.  The
\* id is carried as the counter's value: the clock can stand still between
\* two calls, so the time stamp tells no two ids apart that the counter does
\* not.
generateOperationId(counter) == [ counter |-> counter + 1, id |-> counter + 1 ]

(***************************************************************************)
(* core/module-registry.ts, core/module-loader.ts, client.ts module() and  *)
(* modules/analytics.ts (src/unnamed/part_002) : the module system.        *)
(* A descriptor is a name and a factory; a factory is told apart by its id *)
(* and builds instances of one class.  Module instances are numbered in    *)
(* the order the factories built them.                                     *)
(***************************************************************************)
\* mutant of registerModule: no check for a name already present
registerModule_NoCheck(registry, cfg) ==
    [ thrown |-> None, registry |-> Append(registry, cfg) ]

\* registerModule(config): what it throws and the registry it leaves
registerModule(registry, cfg) ==
    IF \E k \in 1..Len(registry) : registry[k].name = cfg.name
    THEN [ thrown   |-> Some(RawError("Error",
                           "Module with name \"" \o cfg.name \o "\" is already registered")),
           registry |-> registry ]
    ELSE [ thrown |-> None, registry |-> Append(registry, cfg) ]

\* AnalyticsModule.DEFAULT_CONFIG (flushInterval, globalContext left out)
ANALYTICS_DEFAULT_CONFIG == [ enabled |-> TRUE, batchEvents |-> TRUE, batchSize |-> 10 ]

\* new AnalyticsModule(client).  flushTimer is the timer handle the field
\* holds, 0 for null.  Next to the fields the record keeps what the runtime
\* holds for the instance: the timers set and neither fired nor cleared, the
\* persistEvents calls awaited (flushes) and, for the claims, the events the
\* successful ones sent (persisted), how many events they sent (sent) and
\* the number of events handleEvent has taken (made).
AnalyticsModule(client, id) ==
    [ cls |-> "analytics", name |-> "analytics", client |-> client, factory |-> id,
      config |-> ANALYTICS_DEFAULT_CONFIG, isEnabled |-> FALSE,
      telemetryHandler |-> None, handlers |-> 0, flushTimer |-> 0,
      eventQueue |-> << >>, timers |-> { }, flushes |-> << >>,
      persisted |-> { }, sent |-> 0, made |-> 0 ]

\* new ExampleModule(client)
ExampleModule(client, id) ==
    [ cls |-> "example", name |-> "example", client |-> client, factory |-> id ]

\* config.factory(client)
factory(cfg, client) ==
    IF cfg.cls = "analytics" THEN AnalyticsModule(client, cfg.factory)
    ELSE ExampleModule(client, cfg.factory)

\* mutant of loadStep: the instance is stored under its own name
loadStep_ByInstanceName(acc, cfg, client, base) ==
    LET id == base + Len(acc.built) + 1
        built == factory(cfg, client)
    IN  [ modules |-> Merge(acc.modules, built.name :> id),
          keys    |-> IF built.name \in DOMAIN acc.modules THEN acc.keys
                      ELSE Append(acc.keys, built.name),
          built   |-> Append(acc.built, built),
          calls   |-> Append(acc.calls, [ factory |-> cfg.factory, client |-> client,
                                          instance |-> id ]) ]

\* one turn of the loop of loadModules: the factory is invoked with the
\* client and its instance is stored under the descriptor's name
loadStep(acc, cfg, client, base) ==
    LET id == base + Len(acc.built) + 1
    IN  [ modules |-> Merge(acc.modules, cfg.name :> id),
          keys    |-> IF cfg.name \in DOMAIN acc.modules THEN acc.keys
                      ELSE Append(acc.keys, cfg.name),
          built   |-> Append(acc.built, factory(cfg, client)),
          calls   |-> Append(acc.calls, [ factory |-> cfg.factory, client |-> client,
                                          instance |-> id ]) ]

RECURSIVE loadFrom(_, _, _, _, _)
loadFrom(client, registry, k, base, acc) ==
    IF k > Len(registry) THEN acc
    ELSE loadFrom(client, registry, k + 1, base, loadStep(acc, registry[k], client, base))

\* loadModules(client): the mapping (modules, with keys its keys in insertion
\* order), the instances built and the factory invocations made; base is the
\* number of instances built before
loadModules(client, registry, base) ==
    loadFrom(client, registry, 1, base,
             [ modules |-> << >>, keys |-> << >>, built |-> << >>, calls |-> << >> ])

\* names every object inherits from Object.prototype: this.modules is an
\* object literal, so modules[name] is defined for them
ObjectPrototypeKeys == { "toString" }

\* Object.keys(this.modules).join(', ')
RECURSIVE Join(_)
Join(keys) ==
    IF keys = << >> THEN ""
    ELSE IF Len(keys) = 1 THEN keys[1]
    ELSE keys[1] \o ", " \o Join(Tail(keys))

\* mutant of module: a registered module the client lacks is loaded on demand
module_LoadsOnDemand(self, name, client, registry, base) ==
    IF name \in DOMAIN self.modules
    THEN [ thrown |-> None, returned |-> Some([ kind |-> "instance", id |-> self.modules[name] ]),
           self |-> self, built |-> << >>, calls |-> << >> ]
    ELSE IF \E k \in 1..Len(registry) : registry[k].name = name
    THEN LET k == CHOOSE k \in 1..Len(registry) : registry[k].name = name
         IN  [ thrown |-> None, returned |-> Some([ kind |-> "instance", id |-> base + 1 ]),
               self |-> [ self EXCEPT !.modules = Merge(@, name :> (base + 1)),
                                      !.keys = Append(@, name) ],
               built |-> << factory(registry[k], client) >>,
               calls |-> << [ factory |-> registry[k].factory, client |-> client,
                              instance |-> base + 1 ] >> ]
    ELSE [ thrown |-> Some(RawError("Error", "Module \"" \o name \o "\" not found. Available modules: "
                                             \o Join(self.keys))),
           returned |-> None, self |-> self, built |-> << >>, calls |-> << >> ]

\* SupaSDKClient.module(name) on client self: what it throws or returns, the
\* client it leaves, the instances it builds and the factories it invokes
module(self, name, client, registry, base) ==
    IF name \in DOMAIN self.modules
    THEN [ thrown |-> None, returned |-> Some([ kind |-> "instance", id |-> self.modules[name] ]),
           self |-> self, built |-> << >>, calls |-> << >> ]
    ELSE IF name \in ObjectPrototypeKeys
    THEN [ thrown |-> None, returned |-> Some([ kind |-> "inherited", key |-> name ]),
           self |-> self, built |-> << >>, calls |-> << >> ]
    ELSE [ thrown |-> Some(RawError("Error", "Module \"" \o name \o "\" not found. Available modules: "
                                             \o Join(self.keys))),
           returned |-> None, self |-> self, built |-> << >>, calls |-> << >> ]

\* the telemetry handler initialize makes: a closure over the instance, a new
\* one at every call
HandlerOf(id, n) == "analytics:" \o ToString(id) \o ":" \o ToString(n)

\* the analytics instances whose handleEvent the handler h calls
HandlerTargets(h, insts) ==
    { i \in 1..Len(insts) :
        /\ insts[i].cls = "analytics"
        /\ \E n \in 1..insts[i].handlers : HandlerOf(i, n) = h }

\* AnalyticsModule.handleEvent: the event is taken only while enabled
handleEvent(self) == self.isEnabled

\* the instances that take an event emitted under cfg
Receivers(cfg, insts) ==
    IF cfg.enableTelemetry = TRUE /\ IsSome(cfg.telemetryHandler)
    THEN { i \in HandlerTargets(cfg.telemetryHandler[1], insts) : handleEvent(insts[i]) }
    ELSE { }

\* the handler emitEvent(event) calls under cfg, if it calls one
HandlerCalled(cfg, event) ==
    IF emitEvent(cfg, event).sink \in { "handled", "handlerThrew" }
    THEN cfg.telemetryHandler ELSE None

\* emitEvent(event) with the handler called and the instances it reaches
Delivered(cfg, insts, event) ==
    [ event |-> event, sink |-> emitEvent(cfg, event).sink,
      logs |-> emitEvent(cfg, event).logs, handler |-> HandlerCalled(cfg, event),
      takenBy |-> Receivers(cfg, insts) ]

\* mutant of configure: the event is emitted before the merge takes effect
configure_EmitsBeforeMerge(cfg, payload, insts) ==
    LET merged == Merge(cfg, payload)
        changes == { k \in DOMAIN payload : cfg[k] # payload[k] }
    IN  [ config  |-> merged,
          changes |-> changes,
          events  |-> IF changes # { }
                      THEN << Delivered(cfg, insts,
                                  [ type |-> "configuration_change", changes |-> changes ]) >>
                      ELSE << >>,
          logs    |-> IF changes # { }
                      THEN << log(merged, "debug", << "Observability configuration changed" >>,
                                  [ kind |-> "changes", keys |-> changes ]) >>
                      ELSE << >> ]

\* mutant of configure: every key of the payload counts as a change
configure_AllKeysChange(cfg, payload, insts) ==
    LET merged == Merge(cfg, payload)
        changes == DOMAIN payload
    IN  [ config  |-> merged,
          changes |-> changes,
          events  |-> IF changes # { }
                      THEN << Delivered(merged, insts,
                                  [ type |-> "configuration_change", changes |-> changes ]) >>
                      ELSE << >>,
          logs    |-> IF changes # { }
                      THEN << log(merged, "debug", << "Observability configuration changed" >>,
                                  [ kind |-> "changes", keys |-> changes ]) >>
                      ELSE << >> ]

\* Observability.configure(payload): the merged config, the keys that changed
\* and, when any did, the event emitted and the log call made under the
\* merged config
configure(cfg, payload, insts) ==
    LET merged == Merge(cfg, payload)
        changes == { k \in DOMAIN payload : cfg[k] # payload[k] }
    IN  [ config  |-> merged,
          changes |-> changes,
          events  |-> IF changes # { }
                      THEN << Delivered(merged, insts,
                                  [ type |-> "configuration_change", changes |-> changes ]) >>
                      ELSE << >>,
          logs    |-> IF changes # { }
                      THEN << log(merged, "debug", << "Observability configuration changed" >>,
                                  [ kind |-> "changes", keys |-> changes ]) >>
                      ELSE << >> ]

\* the sink under cfg hands the events of the process to a handler of
\* instance id (self)
Reaches(cfg, self, id) ==
    /\ cfg.enableTelemetry = TRUE
    /\ IsSome(cfg.telemetryHandler)
    /\ \E n \in 1..self.handlers : HandlerOf(id, n) = cfg.telemetryHandler[1]

\* the event handleEvent takes next: events are told apart by the order in
\* which the module took them; origin is "app" for what the application
\* tracked or did, "persist" for the events of the module's own requests
EnrichedEvent(self, origin) == [ id |-> self.made + 1, origin |-> origin ]

RECURSIVE handleEventBody(_, _, _, _)
RECURSIVE flush(_, _, _, _)
RECURSIVE persistEvents(_, _, _, _)

\* emitEvent(event) as the instance sees it: the handler calls handleEvent,
\* which returns at once while the module is not enabled
emitted(self, id, cfg, origin) ==
    IF Reaches(cfg, self, id) /\ handleEvent(self)
    THEN handleEventBody(self, id, cfg, origin)
    ELSE self

\* handleEvent past its guard: the event is queued, and the queue flushed
\* when it has reached the batch size; without batching it is sent at once
handleEventBody(self, id, cfg, origin) ==
    LET event == EnrichedEvent(self, origin)
        taken == [ self EXCEPT !.made = @ + 1 ]
    IN  IF self.config.batchEvents
        THEN LET pushed == [ taken EXCEPT !.eventQueue = Append(@, event) ]
             IN  IF Len(pushed.eventQueue) >= pushed.config.batchSize
                 THEN flush(pushed, id, cfg, FALSE)
                 ELSE pushed
        ELSE persistEvents(taken, id, cfg,
                           [ batch |-> << event >>, byTimer |-> FALSE, queued |-> FALSE ])

\* flush() up to its await: the queue is copied and cleared and
\* persistEvents(events) is called; byTimer tells the call of the timer's
\* callback, which has a finally handler
flush(self, id, cfg, byTimer) ==
    IF Len(self.eventQueue) = 0 THEN self
    ELSE persistEvents([ self EXCEPT !.eventQueue = << >> ], id, cfg,
                       [ batch |-> self.eventQueue, byTimer |-> byTimer, queued |-> TRUE ])

\* the calls awaited with f among them.  The promises awaited have no order
\* among themselves; they are kept by the first event of their batch.
Awaiting(flushes, f) ==
    LET k == Cardinality({ i \in 1..Len(flushes) : flushes[i].batch[1].id < f.batch[1].id })
    IN  SubSeq(flushes, 1, k) \o << f >> \o SubSeq(flushes, k + 1, Len(flushes))

\* persistEvents(events) up to its await: apiRequest emits request-start
\* before its first await, so the handler runs inside this call
persistEvents(self, id, cfg, f) ==
    IF Len(f.batch) = 0 THEN self
    ELSE emitted([ self EXCEPT !.flushes = Awaiting(@, f) ], id, cfg, "persist")

\* the smallest handle setTimeout has not in use
NewTimer(self) ==
    CHOOSE t \in 1..(Cardinality(self.timers) + 2) :
        /\ t \notin self.timers \cup { self.flushTimer }
        /\ \A u \in 1..(t - 1) : u \in self.timers \cup { self.flushTimer }

\* startFlushTimer(): the timer held is cleared, a new one is set
startFlushTimer(self) ==
    [ self EXCEPT !.timers = (@ \ { self.flushTimer }) \cup { NewTimer(self) },
                  !.flushTimer = NewTimer(self) ]

\* the finally handler of the timer's callback
restartTimer(self) == IF self.isEnabled THEN startFlushTimer(self) ELSE self

\* the timer t fires: this.flush().finally(...).  With an empty queue flush
\* returns at once and the finally handler runs before any other task
timerFires(self, id, cfg, t) ==
    LET fired == [ self EXCEPT !.timers = @ \ { t } ]
    IN  IF Len(fired.eventQueue) = 0 THEN restartTimer(fired)
        ELSE flush(fired, id, cfg, TRUE)

\* mutant of putBack: the batch replaces the queue
putBack_Overwrites(self, f) == [ self EXCEPT !.eventQueue = f.batch ]

\* the catch block of flush: this.eventQueue = [...events, ...this.eventQueue]
putBack(self, f) == [ self EXCEPT !.eventQueue = f.batch \o @ ]

\* the request of the k-th awaited persistEvents call is answered: apiRequest
\* emits request-end (ok) or request-error, then flush goes on after its
\* await, or the catch handler of handleEvent logs, and then the finally
\* handler of the timer's callback runs
persistSettles(self, id, cfg, k, ok) ==
    LET f == self.flushes[k]
        left == [ self EXCEPT !.flushes = SubSeq(@, 1, k - 1) \o SubSeq(@, k + 1, Len(@)) ]
        answered == emitted(left, id, cfg, "persist")
        settled == IF ok THEN [ answered EXCEPT
                                  !.persisted = @ \cup { f.batch[i] : i \in 1..Len(f.batch) },
                                  !.sent = @ + Len(f.batch) ]
                   ELSE IF f.queued THEN putBack(answered, f)
                   ELSE answered
    IN  IF f.byTimer THEN restartTimer(settled) ELSE settled

\* track(eventName, properties)
track(self, id, cfg) ==
    IF ~self.isEnabled THEN self
    ELSE IF handleEvent(self) THEN handleEventBody(self, id, cfg, "app") ELSE self

\* AnalyticsModule.enable() on instance id (self)
enable(self, id, cfg, insts) ==
    IF ~self.isEnabled /\ IsSome(self.telemetryHandler)
    THEN LET c == configure(cfg, [ enableTelemetry  |-> TRUE,
                                   telemetryHandler |-> self.telemetryHandler ], insts)
             enabled == [ self EXCEPT !.isEnabled = TRUE ]
         IN  [ self   |-> IF self.config.batchEvents THEN startFlushTimer(enabled)
                          ELSE enabled,
               config |-> c.config,
               events |-> c.events ]
    ELSE [ self |-> self, config |-> cfg, events |-> << >> ]

\* AnalyticsModule.initialize(config) on instance id (self)
initialize(self, id, analyticsConfig, cfg, insts) ==
    LET merged == Merge(ANALYTICS_DEFAULT_CONFIG, analyticsConfig)
        made == [ self EXCEPT !.config = merged,
                              !.isEnabled = merged.enabled,
                              !.handlers = @ + 1,
                              !.telemetryHandler = Some(HandlerOf(id, self.handlers + 1)) ]
    IN  IF made.isEnabled
        THEN enable(made, id, cfg, [ insts EXCEPT ![id] = made ])
        ELSE [ self |-> made, config |-> cfg, events |-> << >> ]

\* AnalyticsModule.disable() on instance id (self): the sink is
\* reconfigured, the timer held is cleared, and flush() is called under the
\* sink's new config
disable(self, id, cfg, insts) ==
    IF self.isEnabled
    THEN LET c == configure(cfg, [ enableTelemetry |-> FALSE ], insts)
             stopped == [ self EXCEPT !.isEnabled = FALSE,
                                      !.timers = @ \ { self.flushTimer },
                                      !.flushTimer = 0 ]
         IN  [ self   |-> flush(stopped, id, c.config, FALSE),
               config |-> c.config,
               events |-> c.events ]
    ELSE [ self |-> self, config |-> cfg, events |-> << >> ]

(***************************************************************************)
(* State.                                                                  *)
(***************************************************************************)
VARIABLES
    rl,        \* SpecRL: the controller of the withRateLimit call
    rlTwin,    \* SpecRL: a second call under the same policy, whose operation
               \*         fails with errors that differ at most in their code
    fnCalls,   \* SpecRL: how many times fn was invoked
    fnLog,     \* SpecRL: the outcome of every settled invocation of fn
    waitLog,   \* SpecRL: the backoff waits, in ms
    authToken,        \* SupaSDKClient.authToken (optional)
    apiVersion,       \* SupaSDKClient.apiVersion
    rateLimitConfig,  \* SupaSDKClient.rateLimitConfig
    config,           \* Observability.config of the process-wide sink
    operationCounter, \* Observability.operationCounter
    call,             \* the apiRequest call in flight: what it captured, its
                      \* retry controller and the trace of what it did
    setsDone,         \* setAuthToken / setApiVersion calls made so far
    lastSet,          \* the last setAuthToken / setApiVersion call: the log
                      \* calls it made and the events it emitted
    issuedIds,        \* the operation ids generateOperationId has handed out
    perr,      \* SpecErr: one parseApiError call, its arguments and result
    ver,       \* SpecVer: one buildVersionedPath call and one versionSpecific
               \*          call, their arguments and results
    moduleRegistry,  \* module-registry.ts: the descriptors, in registration order
    clients,         \* SpecMod: the clients constructed, each with its modules
    instances,       \* SpecMod: the module instances the factories built
    factoryLog,      \* SpecMod: every factory invocation, in order
    modOut,          \* SpecMod: the last operation made and what came of it
    sinkLog          \* SpecObs: every call the sink made to a telemetry handler

rlVars == << rl, rlTwin, fnCalls, fnLog, waitLog >>
clVars == << authToken, apiVersion, rateLimitConfig, config, operationCounter,
             call, setsDone, lastSet, issuedIds >>
modVars == << moduleRegistry, clients, instances, factoryLog, modOut >>
anVars == << sinkLog >>
fnVars == << perr, ver, modVars, anVars >>
vars == << rlVars, clVars, fnVars >>

\* nothing is registered, no client is constructed
ModAtRest ==
    /\ moduleRegistry = << >>
    /\ clients = << >>
    /\ instances = << >>
    /\ factoryLog = << >>
    /\ modOut = [ op |-> "none" ]

\* no handler was called
AnAtRest ==
    /\ sinkLog = << >>

\* no parseApiError, buildVersionedPath or versionSpecific call is made
FnAtRest ==
    /\ perr = [ pc |-> "idle" ]
    /\ ver = [ pc |-> "idle" ]
    /\ ModAtRest
    /\ AnAtRest

(***************************************************************************)
(* client.ts : SupaSDKClient.                                              *)
(***************************************************************************)
\* an apiRequest call that has not been made yet
IdleCall ==
    [ method        |-> "GET",
      hasBody       |-> FALSE,
      versionedPath |-> << >>,
      operationId   |-> 0,
      ctl           |-> IdleController,
      trace         |-> << >> ]

\* the state the constructor leaves: new SupaSDKClient(options), with the
\* process-wide sink configured from options.observability
NewClient(options) ==
    /\ apiVersion = OrElse(options.apiVersion, Some(DEFAULT_API_VERSION))[1]
    /\ rateLimitConfig = options.rateLimit
    /\ config = Merge(DEFAULT_CONFIG, options.observability)
    /\ authToken = options.authToken
    /\ operationCounter = 0
    /\ call = IdleCall
    /\ setsDone = 0
    /\ lastSet = [ op |-> "none" ]
    /\ issuedIds = << >>

\* the client and the sink of SpecRL, which makes no request
ClientAtRest ==
    NewClient([ apiVersion |-> None, rateLimit |-> << >>,
                observability |-> << >>, authToken |-> None ])

\* one entry of a call's trace: an event handed to emitEvent (with what the
\* sink did with it), a log call, a transport rq, its answer, a backoff wait
Emitted(event) == [ op |-> "emit", event |-> event, sink |-> emitEvent(config, event).sink ]
\* emitEvent(event) in a trace: the event, then the log calls emitEvent made
Emitting(event) == << Emitted(event) >> \o emitEvent(config, event).logs
\* the handler's error came out of the emitEvent call traced as entries
Escaped(entries) == entries[1].sink = "handlerEscaped"
Waited(ms) == [ op |-> "wait", ms |-> ms ]
Answered(response) == [ op |-> "response", response |-> response ]
NoAnswer == [ op |-> "netfail" ]

\* the request events of apiRequest (timestamp and duration left out)
RequestEvent(type, rq, version, status, error) ==
    [ type        |-> type,
      method      |-> rq.method,
      path        |-> rq.versionedPath,
      operationId |-> rq.operationId,
      apiVersion  |-> version,
      status      |-> status,
      error       |-> error ]

\* makeRequest up to await fetch(url, options): the headers are built from
\* this.apiVersion and this.authToken as they are when the attempt starts
FetchCall(rq, version, token) ==
    [ op      |-> "fetch",
      path    |-> rq.versionedPath,
      method  |-> rq.method,
      hasBody |-> rq.method # "GET" /\ rq.hasBody,
      headers |-> [ XAPIVersion     |-> version,
                    XSDKOperationID |-> rq.operationId,
                    Authorization   |-> token ] ]

\* the data of the request as log data: undefined when there is none
PayloadData(rq) == [ kind |-> "payload", present |-> rq.hasBody ]

\* getObservability().log(LogLevel.DEBUG, `API Request: ...`, data)
RequestLog(rq) ==
    log(config, "debug", << "API Request: ", rq.method, " " >> \o rq.versionedPath,
        PayloadData(rq))

\* the catch block of makeRequest: log(LogLevel.ERROR, `API Request failed: ...`, error)
FailureLog(rq, error) ==
    log(config, "error", << "API Request failed: ", rq.method, " " >> \o rq.versionedPath,
        ErrorData(error))

\* mutant of makeRequestStart: request-start emitted by every attempt
makeRequestStart_EmitsStart(rq, version, token) ==
    << Emitted(RequestEvent("request_start", rq, version, None, None)),
       RequestLog(rq), FetchCall(rq, version, token) >>

\* what an attempt does before it suspends on the transport rq
makeRequestStart(rq, version, token) == << RequestLog(rq), FetchCall(rq, version, token) >>

\* the controller is at `await fn()`: makeRequest runs up to its fetch
BeginAttempt(rq) ==
    IF rq.ctl.pc = "calling"
    THEN [ rq EXCEPT !.trace = @ \o makeRequestStart(rq, apiVersion, authToken) ]
    ELSE rq

\* response.ok
ResponseOk(response) == response.status >= 200 /\ response.status <= 299

\* the controller of call rq after makeRequest threw error: a wait is traced when it
\* retries
AfterRejection(rq, entries, error, rnd) ==
    LET ctl == FnRejected(rq.ctl, error, rnd)
    IN  [ rq EXCEPT !.ctl = ctl,
                      !.trace = @ \o entries \o
                                (IF ctl.pc = "waiting" THEN << Waited(ctl.wait) >>
                                 ELSE << >>) ]

\* makeRequest from the answer of fetch on.  Whatever is thrown inside the
\* try block, an error escaping from emitEvent too, is logged by the catch
\* block and re-thrown.
makeRequestAnswered(rq, response, rnd) ==
    IF ~ResponseOk(response)
    THEN LET errorData == parseApiError(response, None)
             emitting == Emitting(RequestEvent("request_error", rq, apiVersion,
                                               Some(response.status), Some(errorData)))
             thrown == IF Escaped(emitting) THEN HandlerError ELSE errorData
         IN  AfterRejection(rq,
                 << Answered(response) >> \o emitting \o << FailureLog(rq, thrown) >>,
                 thrown, rnd)
    ELSE LET emitting == Emitting(RequestEvent("request_end", rq, apiVersion,
                                               Some(response.status), None))
             ended == << Answered(response) >> \o emitting
             syntaxError == RawError("SyntaxError", "Unexpected token in JSON")
         IN  IF Escaped(emitting)
             THEN AfterRejection(rq, ended \o << FailureLog(rq, HandlerError) >>,
                                 HandlerError, rnd)
             ELSE IF response.body.kind = "json"
             THEN [ rq EXCEPT !.ctl = FnResolved(rq.ctl, response.body.data),
                                !.trace = @ \o ended ]
             ELSE AfterRejection(rq, ended \o << FailureLog(rq, syntaxError) >>,
                                 syntaxError, rnd)

\* makeRequest when fetch rejects: the catch block logs and re-throws
makeRequestFailed(rq, rnd) ==
    LET typeError == RawError("TypeError", "Failed to fetch")
    IN  AfterRejection(rq, << NoAnswer, FailureLog(rq, typeError) >>, typeError, rnd)

\* apiRequest up to its first await: the operation id, the versioned path,
\* the request-start event, then withRateLimit(makeRequest, rateLimitConfig)
\* up to the fetch of the first attempt.  An error escaping from emitEvent
\* rejects the call before any attempt is made.
apiRequestStart(req, id) ==
    LET rq == [ IdleCall EXCEPT
                  !.method = req.method,
                  !.hasBody = req.hasBody,
                  !.versionedPath = buildVersionedPath(req.path, apiVersion),
                  !.operationId = id ]
        emitting == Emitting(RequestEvent("request_start", rq, apiVersion, None, None))
    IN  IF Escaped(emitting)
        THEN [ rq EXCEPT !.trace = emitting,
                         !.ctl = [ IdleController EXCEPT !.pc = "thrown",
                                                         !.outcome = Some(HandlerError) ] ]
        ELSE BeginAttempt([ rq EXCEPT !.trace = emitting,
                                      !.ctl = withRateLimit(rateLimitConfig) ])

\* mutant of setAuthToken: the token is passed to the log call
setAuthToken_LogsToken(token) ==
    [ authToken |-> Some(token),
      logs      |-> << log(config, "debug", << "Auth token updated" >>,
                           ObjectData([ token |-> token ])) >>,
      events    |-> << >> ]

\* setAuthToken(token): the token it leaves, the log calls it makes and the
\* events it emits
setAuthToken(token) ==
    [ authToken |-> Some(token),
      logs      |-> << log(config, "debug", << "Auth token updated" >>, NoData) >>,
      events    |-> << >> ]

\* setApiVersion(version)
setApiVersion(version) ==
    [ apiVersion |-> version,
      logs       |-> << log(config, "info", << "API version changed" >>,
                            ObjectData([ oldVersion |-> apiVersion,
                                         newVersion |-> version ])) >>,
      events     |-> << >> ]

(***************************************************************************)
(* SpecRL : withRateLimit with an arbitrary operation.                     *)
(***************************************************************************)
\* the values of Math.random() the model draws, in percent
RandSet == { 0, 50, 99 }

\* the policies a caller passes: any subset of the keys may be left out
DelayPresets == { << >>,
                  [ baseDelay |-> 100, maxDelay |-> 300, jitter |-> 0 ],
                  [ baseDelay |-> 100, maxDelay |-> 150, jitter |-> 0 ] }
RetryPresets ==
    { << >> }
    \cup { [ maxRetries |-> n ] : n \in 0..MaxRetriesBound }
    \cup { [ enableRetry |-> b ] : b \in BOOLEAN }
    \cup { [ maxRetries |-> n, enableRetry |-> b ] :
             n \in 0..MaxRetriesBound, b \in BOOLEAN }

RateLimitConfigs == { Merge(r, d) : r \in RetryPresets, d \in DelayPresets }

RateLimitInfo == [ remaining |-> Some(0), limit |-> Some(60), resetAt |-> None ]

\* the errors the operation may throw, each built by its constructor
FnRateLimitErrors ==
    { RateLimitError(m, Some(429), d, None, None) :
        m \in { "slow down", "too many requests" },
        d \in { None, Some([ rateLimit |-> Some(RateLimitInfo) ]) } }
    \cup { RateLimitError("slow down", Some(429), None, None, ra) :
              ra \in { Some(0), Some(2) } }

FnOtherErrors ==
    { SDKError("failed", c, Some(s), None, None, Some(r)) :
        c \in { "server_error", "rate_limited", "invalid_parameters" },
        s \in { 503 }, r \in BOOLEAN }
    \cup { SDKError("failed", "rate_limited", Some(429), None, None, Some(TRUE)) }
    \cup { NetworkError("Network error occurred", None, None) }
    \cup { AuthError("Authentication error", c, Some(401), None, None) :
             c \in { "unauthorized", "token_expired" } }
    \cup { RawError("TypeError", "Failed to fetch") }

FnErrors == FnRateLimitErrors \cup FnOtherErrors

FnResults == { "result" }

\* e2 is e with, at most, another code
SameButCode(e, e2) ==
    /\ DOMAIN e = DOMAIN e2
    /\ \A k \in (DOMAIN e) \ { "code" } : e[k] = e2[k]

CodeSiblings(e) == { e2 \in FnErrors : SameButCode(e, e2) }

InitRL ==
    /\ rl = IdleController
    /\ rlTwin = IdleController
    /\ fnCalls = 0
    /\ fnLog = << >>
    /\ waitLog = << >>

\* the caller calls withRateLimit(fn, config)
RLCall(policy) ==
    /\ rl.pc = "idle"
    /\ rl' = withRateLimit(policy)
    /\ rlTwin' = withRateLimit(policy)
    /\ fnCalls' = IF rl'.pc = "calling" THEN fnCalls + 1 ELSE fnCalls
    /\ UNCHANGED << fnLog, waitLog >>
    /\ UNCHANGED << clVars, fnVars >>

\* fn() resolves
RLFnResolves(result) ==
    /\ rl.pc = "calling"
    /\ rl' = FnResolved(rl, result)
    /\ rlTwin' = IF rlTwin.pc = "calling" THEN FnResolved(rlTwin, result) ELSE rlTwin
    /\ fnLog' = Append(fnLog, [ ok |-> TRUE, result |-> result ])
    /\ UNCHANGED << fnCalls, waitLog >>
    /\ UNCHANGED << clVars, fnVars >>

\* fn() rejects
RLFnRejects(error, rnd) ==
    /\ rl.pc = "calling"
    /\ rl' = FnRejected(rl, error, rnd)
    /\ \E e2 \in CodeSiblings(error) :
          rlTwin' = IF rlTwin.pc = "calling"
                    THEN FnRejected(rlTwin, e2, rnd) ELSE rlTwin
    /\ fnLog' = Append(fnLog, [ ok |-> FALSE, error |-> error ])
    /\ waitLog' = IF rl'.pc = "waiting" THEN Append(waitLog, rl'.wait) ELSE waitLog
    /\ UNCHANGED fnCalls
    /\ UNCHANGED << clVars, fnVars >>

\* the backoff timer fires
RLBackoffDone ==
    /\ rl.pc = "waiting"
    /\ rl' = BackoffDone(rl)
    /\ rlTwin' = IF rlTwin.pc = "waiting" THEN BackoffDone(rlTwin) ELSE rlTwin
    /\ fnCalls' = IF rl'.pc = "calling" THEN fnCalls + 1 ELSE fnCalls
    /\ UNCHANGED << fnLog, waitLog >>
    /\ UNCHANGED << clVars, fnVars >>

NextRL ==
    \/ \E policy \in RateLimitConfigs : RLCall(policy)
    \/ \E result \in FnResults : RLFnResolves(result)
    \/ \E error \in FnErrors, rnd \in RandSet : RLFnRejects(error, rnd)
    \/ RLBackoffDone

InitSpecRL == InitRL /\ ClientAtRest /\ FnAtRest

SpecRL == InitSpecRL /\ [][NextRL]_vars

(***************************************************************************)
(* SpecPol : withRateLimit under the policies a caller can pass without    *)
(* the type checker objecting: RateLimitConfig.maxRetries is a number, any *)
(* number.                                                                 *)
(***************************************************************************)
\* policies with a maxRetries below zero, next to usual ones
PolicyShapes ==
    { << >>,
      [ maxRetries |-> 0 ],
      [ maxRetries |-> 1, baseDelay |-> 100, maxDelay |-> 300, jitter |-> 0 ],
      [ maxRetries |-> -1 ],
      [ maxRetries |-> -1, enableRetry |-> FALSE ],
      [ maxRetries |-> -2, baseDelay |-> 100, maxDelay |-> 300, jitter |-> 0 ] }

NextPol ==
    \/ \E policy \in PolicyShapes : RLCall(policy)
    \/ \E result \in FnResults : RLFnResolves(result)
    \/ \E error \in FnErrors, rnd \in RandSet : RLFnRejects(error, rnd)
    \/ RLBackoffDone

SpecPol == InitSpecRL /\ [][NextPol]_vars

(***************************************************************************)
(* Spec : apiRequest calls on the event loop, with setAuthToken and        *)
(* setApiVersion between their steps.                                      *)
(***************************************************************************)
ClientRateLimits ==
    { [ maxRetries |-> 1 ] }
    \cup
    { [ maxRetries |-> n, baseDelay |-> 100, maxDelay |-> 300, jitter |-> 0 ] :
        n \in 0..MaxRetriesBound }
    \cup { [ enableRetry |-> FALSE, baseDelay |-> 100, maxDelay |-> 300, jitter |-> 0 ] }

ClientObservability ==
    { << >>,
      [ enableTelemetry |-> TRUE ],
      [ enableTelemetry |-> TRUE, telemetryHandler |-> Some("ok") ],
      [ enableTelemetry |-> TRUE, telemetryHandler |-> Some("throws") ] }

ClientOptions ==
    [ apiVersion    : { None },
      rateLimit     : ClientRateLimits,
      observability : ClientObservability,
      authToken     : { None, Some("tokA") } ]

Requests ==
    { [ path |-> << "/", "i" >>, method |-> "GET", hasBody |-> FALSE ],
      [ path |-> << "i" >>, method |-> "POST", hasBody |-> TRUE ] }

JsonBody(data) == [ kind |-> "json", data |-> data ]
TextBody(text) == [ kind |-> "text", text |-> text ]

Responses ==
    { [ status |-> 200, statusText |-> "OK",
        body |-> JsonBody([ id |-> "42" ]), headers |-> << >> ],
      [ status |-> 200, statusText |-> "OK",
        body |-> TextBody("<html>"), headers |-> << >> ],
      [ status |-> 429, statusText |-> "Too Many Requests",
        body |-> JsonBody([ message |-> "slow down" ]),
        headers |-> [ h \in { "retry-after", "x-ratelimit-limit", "x-ratelimit-reset" }
                        |-> << "1" >> ] ],
      [ status |-> 429, statusText |-> "Too Many Requests",
        body |-> JsonBody([ message |-> "slow down" ]), headers |-> << >> ],
      [ status |-> 429, statusText |-> "Too Many Requests",
        body |-> TextBody("<html>"), headers |-> << >> ],
      [ status |-> 503, statusText |-> "Service Unavailable",
        body |-> JsonBody([ error |-> "unavailable" ]), headers |-> << >> ],
      [ status |-> 401, statusText |-> "Unauthorized",
        body |-> JsonBody([ code |-> "token_expired" ]), headers |-> << >> ] }

\* the values of Math.random() that make a difference to the call: none does
\* under a policy without jitter
JitterDraws == IF call.ctl.cfg.jitter = 0 THEN { 0 } ELSE RandSet

Init ==
    /\ \E options \in ClientOptions : NewClient(options)
    /\ InitRL
    /\ FnAtRest

\* apiRequest(path, method, data) up to the first await
ApiRequest(req) ==
    /\ Len(issuedIds) < MaxCalls
    /\ call.ctl.pc = "idle"
    /\ LET g == generateOperationId(operationCounter)
       IN  /\ operationCounter' = g.counter
           /\ issuedIds' = Append(issuedIds, g.id)
           /\ call' = apiRequestStart(req, g.id)
    /\ UNCHANGED << authToken, apiVersion, rateLimitConfig, config, setsDone, lastSet >>
    /\ UNCHANGED << rlVars, fnVars >>

\* the transport call is answered
FetchResolves(response) ==
    /\ call.ctl.pc = "calling"
    /\ \E rnd \in JitterDraws : call' = makeRequestAnswered(call, response, rnd)
    /\ UNCHANGED << authToken, apiVersion, rateLimitConfig, config,
                    operationCounter, setsDone, lastSet, issuedIds >>
    /\ UNCHANGED << rlVars, fnVars >>

\* the transport call fails without a response
FetchRejects ==
    /\ call.ctl.pc = "calling"
    /\ \E rnd \in JitterDraws : call' = makeRequestFailed(call, rnd)
    /\ UNCHANGED << authToken, apiVersion, rateLimitConfig, config,
                    operationCounter, setsDone, lastSet, issuedIds >>
    /\ UNCHANGED << rlVars, fnVars >>

\* the backoff timer fires: the next attempt starts
BackoffElapsed ==
    /\ call.ctl.pc = "waiting"
    /\ call' = BeginAttempt([ call EXCEPT !.ctl = BackoffDone(@) ])
    /\ UNCHANGED << authToken, apiVersion, rateLimitConfig, config,
                    operationCounter, setsDone, lastSet, issuedIds >>
    /\ UNCHANGED << rlVars, fnVars >>

\* .then(result => result.result): the promise of the call settles, its
\* caller goes on and nothing of the call is left
Settle ==
    /\ call.ctl.pc \in { "returned", "thrown" }
    /\ call' = IdleCall
    /\ UNCHANGED << authToken, apiVersion, rateLimitConfig, config,
                    operationCounter, setsDone, lastSet, issuedIds >>
    /\ UNCHANGED << rlVars, fnVars >>

\* setAuthToken(token)
SetAuthToken(token) ==
    /\ setsDone < MaxSets
    /\ LET r == setAuthToken(token)
       IN  /\ authToken' = r.authToken
           /\ lastSet' = [ op |-> "setAuthToken", logs |-> r.logs, events |-> r.events ]
    /\ setsDone' = setsDone + 1
    /\ UNCHANGED << apiVersion, rateLimitConfig, config, operationCounter, call,
                    issuedIds >>
    /\ UNCHANGED << rlVars, fnVars >>

\* setApiVersion(version)
SetApiVersion(version) ==
    /\ setsDone < MaxSets
    /\ LET r == setApiVersion(version)
       IN  /\ apiVersion' = r.apiVersion
           /\ lastSet' = [ op |-> "setApiVersion", logs |-> r.logs, events |-> r.events ]
    /\ setsDone' = setsDone + 1
    /\ UNCHANGED << authToken, rateLimitConfig, config, operationCounter, call,
                    issuedIds >>
    /\ UNCHANGED << rlVars, fnVars >>

Next ==
    \/ \E req \in Requests : ApiRequest(req)
    \/ \E response \in Responses : FetchResolves(response)
    \/ FetchRejects
    \/ BackoffElapsed
    \/ Settle
    \/ \E token \in { "tokB" } : SetAuthToken(token)
    \/ \E version \in ApiVersions : SetApiVersion(version)

Spec == Init /\ [][Next]_vars

(***************************************************************************)
(* SpecIds : the calls of one client, as in Spec, among the other          *)
(* apiRequest calls of the process.                                        *)
(***************************************************************************)
\* the client of SpecIds: one retry, telemetry on, a handler that returns
IdsOptions ==
    [ apiVersion    |-> None,
      rateLimit     |-> [ maxRetries |-> 1 ],
      observability |-> [ enableTelemetry |-> TRUE, telemetryHandler |-> Some("ok") ],
      authToken     |-> None ]

InitIds ==
    /\ NewClient(IdsOptions)
    /\ InitRL
    /\ FnAtRest

\* an apiRequest call of another client of the process, or a call of this
\* client that overlaps the call in flight: of what it does, its
\* generateOperationId alone touches what the call in flight and the later
\* calls of this client read
OtherApiRequest ==
    /\ Len(issuedIds) < MaxCalls
    /\ LET g == generateOperationId(operationCounter)
       IN  /\ operationCounter' = g.counter
           /\ issuedIds' = Append(issuedIds, g.id)
    /\ UNCHANGED << authToken, apiVersion, rateLimitConfig, config, call, setsDone,
                    lastSet >>
    /\ UNCHANGED << rlVars, fnVars >>

NextIds == Next \/ OtherApiRequest

SpecIds == InitIds /\ [][NextIds]_vars

(***************************************************************************)
(* SpecErr : parseApiError applied to one response.                        *)
(***************************************************************************)
\* JSON.parse(text) yields null
NullBody == [ kind |-> "null" ]

ErrStatuses == { 400, 401, 403, 404, 409, 418, 429, 500, 501, 502, 503, 504, 599 }

StatusTextOf(status) ==
    CASE status = 429 -> "Too Many Requests"
      [] status = 401 -> "Unauthorized"
      [] OTHER -> "Error"

\* the bodies of an error response: JSON objects with and without the fields
\* parseApiError reads, JSON null, texts that are no JSON, the empty body
ErrBodies ==
    { JsonBody(<< >>),
      JsonBody([ message |-> "slow down" ]),
      JsonBody([ error |-> "unavailable", requestId |-> "r2" ]),
      TextBody("<html>"),
      TextBody(""),
      NullBody }
    \cup { JsonBody([ message |-> "m", code |-> c ]) :
              c \in { "conflict", "token_expired", "rate_limited", "bogus" } }

DigitChar == << "0", "1", "2", "3", "4", "5", "6", "7", "8", "9" >>

\* the decimal digits of k, as the server writes them in retry-after
RECURSIVE ToDigits(_)
ToDigits(k) ==
    IF k < 10 THEN << DigitChar[k + 1] >>
    ELSE ToDigits(k \div 10) \o << DigitChar[(k % 10) + 1] >>

\* the headers of an error response
ErrHeaders ==
    { << >>, [ h \in { "x-request-id" } |-> "r1" ] }
    \cup { [ h \in { "retry-after" } |-> ToDigits(k) ] : k \in 0..MaxRetryAfter }
    \cup { [ h \in { "retry-after" } |-> v ] :
              v \in { << "a", "b" >>, << " ", "5" >>, << "5", "s" >>, << >> } }

ErrResponses ==
    { [ status |-> st, statusText |-> StatusTextOf(st), body |-> b, headers |-> h ] :
        st \in ErrStatuses, b \in ErrBodies, h \in ErrHeaders }

\* the optional second argument of parseApiError
ErrResponseTexts ==
    { None, Some(TextBody("oops")), Some(TextBody("")),
      Some(JsonBody([ message |-> "given" ])) }

InitErr ==
    /\ perr \in { [ pc |-> "called", response |-> r, responseText |-> t ] :
                     r \in ErrResponses, t \in ErrResponseTexts }
    /\ ver = [ pc |-> "idle" ]
    /\ ModAtRest
    /\ AnAtRest
    /\ InitRL
    /\ ClientAtRest

\* await parseApiError(response, responseText)
ParseApiError ==
    /\ perr.pc = "called"
    /\ perr' = [ pc |-> "returned", response |-> perr.response,
                 responseText |-> perr.responseText,
                 result |-> parseApiError(perr.response, perr.responseText) ]
    /\ UNCHANGED << rlVars, clVars, ver, modVars, anVars >>

NextErr == ParseApiError

SpecErr == InitErr /\ [][NextErr]_vars

(***************************************************************************)
(* SpecVer : buildVersionedPath and versionSpecific, each applied once.    *)
(***************************************************************************)
PathChars == { "/", "a" }

\* the logical paths: no, one or several leading separators, inner ones
Paths == UNION { [ 1..n -> PathChars ] : n \in 0..MaxPathLen }

\* Partial<Record<ApiVersion, () => T>>, a key may hold undefined
HandlerTables ==
    UNION { [ vs -> { "fn", "undefined" } ] : vs \in SUBSET ApiVersions }

Fallbacks == { None, Some("fn") }

InitVer ==
    /\ ver \in { [ pc |-> "called", path |-> p, version |-> v,
                    handlers |-> h, fallback |-> f,
                    wirePath |-> None, dispatched |-> None ] :
                    p \in Paths, v \in ApiVersions,
                    h \in HandlerTables, f \in Fallbacks }
    /\ perr = [ pc |-> "idle" ]
    /\ ModAtRest
    /\ AnAtRest
    /\ InitRL
    /\ ClientAtRest

\* buildVersionedPath(path, version)
BuildVersionedPath ==
    /\ ver.pc = "called"
    /\ ver.wirePath = None
    /\ ver' = [ ver EXCEPT !.wirePath = Some(buildVersionedPath(ver.path, ver.version)) ]
    /\ UNCHANGED << rlVars, clVars, perr, modVars, anVars >>

\* versionSpecific(version, handlers, fallback)
VersionSpecific ==
    /\ ver.pc = "called"
    /\ ver.dispatched = None
    /\ ver' = [ ver EXCEPT !.dispatched =
                   Some(versionSpecific(ver.version, ver.handlers, ver.fallback)) ]
    /\ UNCHANGED << rlVars, clVars, perr, modVars, anVars >>

NextVer == BuildVersionedPath \/ VersionSpecific

SpecVer == InitVer /\ [][NextVer]_vars

(***************************************************************************)
(* SpecMod: the module system.  Modules register themselves, clients are   *)
(* constructed and applications look modules up, in any order.             *)
(***************************************************************************)
\* the descriptors offered to registerModule: the two the SDK ships and an
\* application's own under a name the SDK uses
Descriptors ==
    { [ name |-> "analytics", cls |-> "analytics", factory |-> 1 ],
      [ name |-> "example",   cls |-> "example",   factory |-> 2 ],
      [ name |-> "analytics", cls |-> "example",   factory |-> 3 ] }

\* SupaSDKOptions.modules: absent, or a list of names
ModuleAllowLists == { None, Some({ "analytics" }) }

\* SupaSDKOptions.observability at construction: << >> is absent
ConstructObservability == { << >>, [ enableTelemetry |-> TRUE ] }

ConstructOptions ==
    { o \in [ modules : ModuleAllowLists, observability : ConstructObservability ] :
        o.modules = None \/ o.observability = << >> }

\* the names asked of module()
LookupNames == { "analytics", "nonexistent", "toString" }

InitMod ==
    /\ ModAtRest
    /\ perr = [ pc |-> "idle" ]
    /\ ver = [ pc |-> "idle" ]
    /\ AnAtRest
    /\ InitRL
    /\ ClientAtRest

\* registerModule(cfg), as the module files and applications call it
RegisterModule(cfg) ==
    LET r == registerModule(moduleRegistry, cfg)
    IN  /\ moduleRegistry' = r.registry
        /\ modOut' = [ op |-> "registerModule", config |-> cfg, thrown |-> r.thrown,
                       before |-> moduleRegistry ]
        /\ UNCHANGED << clients, instances, factoryLog >>
        /\ UNCHANGED << rlVars, clVars, perr, ver, anVars >>

\* the client new SupaSDKClient leaves: its mapping and its keys, its options
\* and, for the claims, the registry it was constructed under and the mapping
\* loadModules returned
Constructed(options, registry, l) ==
    [ modules |-> l.modules, keys |-> l.keys, options |-> options,
      registry |-> registry, loaded |-> l.modules ]

\* new SupaSDKClient(options): the sink is configured when options carry an
\* observability payload (an absent payload changes nothing, as an empty one),
\* then loadModules(this) fills this.modules
Construct(options) ==
    /\ Len(clients) < MaxClients
    /\ LET id == Len(clients) + 1
           c == configure(config, options.observability, instances)
           l == loadModules(id, moduleRegistry, Len(instances))
       IN  /\ config' = c.config
           /\ clients' = Append(clients, Constructed(options, moduleRegistry, l))
           /\ instances' = instances \o l.built
           /\ factoryLog' = factoryLog \o l.calls
           /\ modOut' = [ op |-> "construct", client |-> id, events |-> c.events ]
    /\ UNCHANGED moduleRegistry
    /\ UNCHANGED << rlVars, authToken, apiVersion, rateLimitConfig, operationCounter,
                    call, setsDone, lastSet, issuedIds, perr, ver, anVars >>

\* client.module(name)
Module(c, name) ==
    LET r == module(clients[c], name, c, moduleRegistry, Len(instances))
    IN  /\ clients' = [ clients EXCEPT ![c] = r.self ]
        /\ instances' = instances \o r.built
        /\ factoryLog' = factoryLog \o r.calls
        /\ modOut' = [ op |-> "module", client |-> c, name |-> name,
                       thrown |-> r.thrown, returned |-> r.returned ]
        /\ UNCHANGED moduleRegistry
        /\ UNCHANGED << rlVars, clVars, perr, ver, anVars >>

NextMod ==
    \/ \E cfg \in Descriptors : RegisterModule(cfg)
    \/ \E options \in ConstructOptions : Construct(options)
    \/ \E c \in 1..Len(clients), name \in LookupNames : Module(c, name)

SpecMod == InitMod /\ [][NextMod]_vars

(***************************************************************************)
(* SpecAn: two clients of one process, each with its analytics module, and *)
(* the sink they share.  Applications drive the analytics modules and      *)
(* reconfigure the sink, and events are emitted, in any order.  The        *)
(* analytics module's event queue is not part of this specification: of    *)
(* handleEvent it keeps whether the event is taken.                        *)
(***************************************************************************)
\* the configurations passed to AnalyticsModule.initialize
AnalyticsConfigs ==
    { << >>, [ enabled |-> FALSE ], [ enabled |-> FALSE, batchEvents |-> FALSE ] }

\* the payloads an application passes to Observability.configure
ConfigurePayloads ==
    { [ enableTelemetry |-> FALSE ],
      [ logLevel |-> "debug" ],
      [ enableTelemetry |-> TRUE, telemetryHandler |-> Some("ok") ] }

\* modules/analytics.ts has registered itself and two clients are constructed
InitAn ==
    /\ moduleRegistry = << [ name |-> "analytics", cls |-> "analytics", factory |-> 1 ] >>
    /\ LET options == [ modules |-> None, observability |-> << >> ]
           l1 == loadModules(1, moduleRegistry, 0)
           l2 == loadModules(2, moduleRegistry, Len(l1.built))
       IN  /\ clients = << Constructed(options, moduleRegistry, l1),
                           Constructed(options, moduleRegistry, l2) >>
           /\ instances = l1.built \o l2.built
           /\ factoryLog = l1.calls \o l2.calls
    /\ modOut = [ op |-> "none" ]
    /\ perr = [ pc |-> "idle" ]
    /\ ver = [ pc |-> "idle" ]
    /\ AnAtRest
    /\ InitRL
    /\ ClientAtRest

\* an operation of the analytics instance id ran and left r; before is, for
\* the claims, the set of instances that took events before it
AnalyticsRan(op, id, r) ==
    /\ instances' = [ instances EXCEPT ![id] = r.self ]
    /\ config' = r.config
    /\ modOut' = [ op |-> op, instance |-> id, client |-> instances[id].client,
                   events |-> r.events, before |-> Receivers(config, instances) ]
    /\ UNCHANGED << moduleRegistry, clients, factoryLog >>
    /\ UNCHANGED << rlVars, authToken, apiVersion, rateLimitConfig, operationCounter,
                    call, setsDone, lastSet, issuedIds, perr, ver, anVars >>

\* client.module('analytics').initialize(analyticsConfig)
Initialize(id, analyticsConfig) ==
    /\ instances[id].cls = "analytics"
    /\ instances[id].handlers < MaxHandlers
    /\ AnalyticsRan("initialize", id,
                    initialize(instances[id], id, analyticsConfig, config, instances))

\* client.module('analytics').enable()
Enable(id) ==
    /\ instances[id].cls = "analytics"
    /\ AnalyticsRan("enable", id, enable(instances[id], id, config, instances))

\* client.module('analytics').disable()
Disable(id) ==
    /\ instances[id].cls = "analytics"
    /\ AnalyticsRan("disable", id, disable(instances[id], id, config, instances))

\* getObservability().configure(payload), called by the application; again
\* is, for the claims, whether the call before it was configure(payload) too
Configure(payload) ==
    LET c == configure(config, payload, instances)
    IN  /\ config' = c.config
        /\ modOut' = [ op |-> "configure", payload |-> payload, events |-> c.events,
                       logs |-> c.logs,
                       before |-> config,
                       again |-> modOut.op = "configure" /\ modOut.payload = payload ]
        /\ UNCHANGED << moduleRegistry, clients, instances, factoryLog >>
        /\ UNCHANGED << rlVars, authToken, apiVersion, rateLimitConfig, operationCounter,
                        call, setsDone, lastSet, issuedIds, perr, ver, anVars >>

\* some operation of the process emits an event
EmitEvent ==
    /\ modOut' = [ op |-> "emitEvent",
                   events |-> << Delivered(config, instances, [ type |-> "request_start" ]) >> ]
    /\ UNCHANGED << moduleRegistry, clients, instances, factoryLog >>
    /\ UNCHANGED << rlVars, clVars, perr, ver, anVars >>

NextAn ==
    \/ \E id \in 1..Len(instances), a \in AnalyticsConfigs : Initialize(id, a)
    \/ \E id \in 1..Len(instances) : Enable(id)
    \/ \E id \in 1..Len(instances) : Disable(id)
    \/ \E payload \in ConfigurePayloads : Configure(payload)
    \/ EmitEvent

SpecAn == InitAn /\ [][NextAn]_vars

(***************************************************************************)
(* SpecQ: the analytics module of one client with its event queue, its     *)
(* flushes and its flush timer.  The application initializes, enables and  *)
(* disables the module, tracks events, makes other SDK calls whose events  *)
(* the sink may hand to the module, and calls flush(); timers fire and the *)
(* backend answers the persist requests, well or not, in any order.        *)
(* With batching off, or a batch size of 1, a persist request started      *)
(* while the module's handler is in the sink does not return (handleEvent  *)
(* calls persistEvents, whose request-start event calls handleEvent); the  *)
(* configurations of SpecQ are those in which it does.                     *)
(***************************************************************************)
\* the configurations passed to initialize
QueueConfigs ==
    { [ batchSize |-> 2 ],
      [ enabled |-> FALSE, batchSize |-> 2 ] }

\* modules/analytics.ts has registered itself and one client is constructed;
\* modOut.disabled is, for the claims, whether disable() has returned and
\* enable() was not called since
InitQ ==
    /\ moduleRegistry = << [ name |-> "analytics", cls |-> "analytics", factory |-> 1 ] >>
    /\ LET options == [ modules |-> None, observability |-> << >> ]
           l == loadModules(1, moduleRegistry, 0)
       IN  /\ clients = << Constructed(options, moduleRegistry, l) >>
           /\ instances = l.built
           /\ factoryLog = l.calls
    /\ modOut = [ op |-> "none", disabled |-> FALSE ]
    /\ perr = [ pc |-> "idle" ]
    /\ ver = [ pc |-> "idle" ]
    /\ AnAtRest
    /\ InitRL
    /\ ClientAtRest

\* an operation on the analytics instance id ran and left self under the
\* sink configuration cfg
QueueRan(id, self, cfg, disabled) ==
    /\ self.made <= MaxEvents
    /\ instances' = [ instances EXCEPT ![id] = self ]
    /\ config' = cfg
    /\ modOut' = [ op |-> "analytics", disabled |-> disabled ]
    /\ UNCHANGED << moduleRegistry, clients, factoryLog >>
    /\ UNCHANGED << rlVars, authToken, apiVersion, rateLimitConfig, operationCounter,
                    call, setsDone, lastSet, issuedIds, perr, ver, anVars >>

\* client.module('analytics').initialize(analyticsConfig): enable() is
\* called when the merged configuration has analytics enabled
QInitialize(id, analyticsConfig) ==
    /\ instances[id].handlers < MaxHandlers
    /\ LET r == initialize(instances[id], id, analyticsConfig, config, instances)
       IN  QueueRan(id, r.self, r.config,
                    modOut.disabled /\ ~r.self.config.enabled)

\* client.module('analytics').enable()
QEnable(id) ==
    LET r == enable(instances[id], id, config, instances)
    IN  QueueRan(id, r.self, r.config, FALSE)

\* client.module('analytics').disable()
QDisable(id) ==
    LET r == disable(instances[id], id, config, instances)
    IN  QueueRan(id, r.self, r.config, TRUE)

\* client.module('analytics').track(name, properties)
QTrack(id) ==
    QueueRan(id, track(instances[id], id, config), config, modOut.disabled)

\* another operation of the SDK hands an event to emitEvent
QSdkEvent(id) ==
    QueueRan(id, emitted(instances[id], id, config, "app"), config,
             modOut.disabled)

\* client.module('analytics').flush()
QFlush(id) ==
    QueueRan(id, flush(instances[id], id, config, FALSE), config,
             modOut.disabled)

\* the timer t fires
QTimerFires(id, t) ==
    /\ t \in instances[id].timers
    /\ QueueRan(id, timerFires(instances[id], id, config, t), config,
                modOut.disabled)

\* the backend answers the request of the k-th persistEvents call awaited
QPersistSettles(id, k, ok) ==
    /\ k \in 1..Len(instances[id].flushes)
    /\ QueueRan(id, persistSettles(instances[id], id, config, k, ok), config,
                modOut.disabled)

NextQ ==
    \/ \E id \in 1..Len(instances), a \in QueueConfigs : QInitialize(id, a)
    \/ \E id \in 1..Len(instances) : QEnable(id)
    \/ \E id \in 1..Len(instances) : QDisable(id)
    \/ \E id \in 1..Len(instances) : QTrack(id)
    \/ \E id \in 1..Len(instances) : QSdkEvent(id)
    \/ \E id \in 1..Len(instances) : QFlush(id)
    \/ \E id \in 1..Len(instances) : \E t \in instances[id].timers : QTimerFires(id, t)
    \/ \E id \in 1..Len(instances), k \in 1..MaxEvents, ok \in BOOLEAN :
          QPersistSettles(id, k, ok)

SpecQ == InitQ /\ [][NextQ]_vars

(***************************************************************************)
(* SpecObs: the sink alone.  Applications reconfigure it and operations    *)
(* of the process emit events, in any order; sinkLog keeps every call the  *)
(* sink makes to a telemetry handler.                                      *)
(***************************************************************************)
\* the telemetry handlers applications install
ObsHandlers == { "ok", "throws" }

\* the payloads passed to Observability.configure
ObsPayloads ==
    { [ enableTelemetry |-> b ] : b \in BOOLEAN }
    \cup { [ telemetryHandler |-> Some(h) ] : h \in ObsHandlers }
    \cup { [ enableTelemetry |-> b, telemetryHandler |-> Some(h) ] :
             b \in BOOLEAN, h \in ObsHandlers }
    \cup { [ logLevel |-> "debug" ] }

InitObs ==
    /\ ClientAtRest
    /\ InitRL
    /\ FnAtRest

\* the calls to handlers made while the events ds were emitted
HandlerCalls(ds) ==
    [ i \in 1..Len(SelectSeq(ds, LAMBDA d : IsSome(d.handler))) |->
        LET d == SelectSeq(ds, LAMBDA d : IsSome(d.handler))[i]
        IN  [ handler |-> d.handler[1], event |-> d.event ] ]

\* getObservability().configure(payload); callsBefore is, for the claims,
\* the number of handler calls made before it
ObsConfigure(payload) ==
    LET c == configure(config, payload, instances)
    IN  /\ Len(sinkLog) + Len(HandlerCalls(c.events)) <= MaxDeliveries
        /\ config' = c.config
        /\ sinkLog' = sinkLog \o HandlerCalls(c.events)
        /\ modOut' = [ op |-> "configure", payload |-> payload, events |-> c.events,
                       before |-> config, callsBefore |-> Len(sinkLog) ]
        /\ UNCHANGED << moduleRegistry, clients, instances, factoryLog >>
        /\ UNCHANGED << rlVars, authToken, apiVersion, rateLimitConfig, operationCounter,
                        call, setsDone, lastSet, issuedIds, perr, ver >>

\* some operation of the process emits an event
ObsEmitEvent ==
    LET d == Delivered(config, instances, [ type |-> "request_start" ])
    IN  /\ Len(sinkLog) + Len(HandlerCalls(<< d >>)) <= MaxDeliveries
        /\ sinkLog' = sinkLog \o HandlerCalls(<< d >>)
        /\ UNCHANGED << rlVars, clVars, perr, ver, modVars >>

NextObs ==
    \/ \E payload \in ObsPayloads : ObsConfigure(payload)
    \/ ObsEmitEvent

SpecObs == InitObs /\ [][NextObs]_vars

(***************************************************************************)
(* Claims about withRateLimit, checked under SpecRL.                       *)
(***************************************************************************)
\* the policy in force and the state of the call
N == rl.cfg.maxRetries
Settled == rl.pc \in { "returned", "thrown" }
FailedAt(i) == ~fnLog[i].ok
RateLimitedAt(i) == FailedAt(i) /\ IsRateLimitError(fnLog[i].error)
AllRateLimited == \A i \in 1..Len(fnLog) : RateLimitedAt(i)
\* the failure of invocation i was retried: a wait or a further invocation
\* followed it
RetriedAt(i) == i < Len(fnLog) \/ (i = Len(fnLog) /\ rl.pc = "waiting")

\* C1: with retry enabled and max retries = N, an operation that fails with a
\* rate-limited error on every attempt is invoked exactly N+1 times, and the
\* call then fails with a rate-limit error (never earlier, never later).
C1_AlwaysRateLimitedTakesNPlus1 ==
    (rl.pc # "idle" /\ rl.cfg.enableRetry /\ AllRateLimited) =>
        /\ fnCalls <= N + 1
        /\ rl.pc # "returned"
        /\ Settled =>
             /\ fnCalls = N + 1
             /\ Len(fnLog) = N + 1
             /\ IsSome(rl.outcome)
             /\ IsRateLimitError(rl.outcome[1])

C1_Witness ==
    /\ rl.pc = "thrown"
    /\ rl.cfg.enableRetry
    /\ AllRateLimited
    /\ N = MaxRetriesBound
    /\ fnCalls = N + 1

\* C2: a failure that is not a rate-limit error is never retried, whatever
\* max retries is: it is the last invocation, no wait follows it, and the call
\* fails with that very error value.
C2_OtherFailureNotRetried ==
    \A i \in 1..Len(fnLog) :
        (FailedAt(i) /\ ~IsRateLimitError(fnLog[i].error)) =>
            /\ i = Len(fnLog)
            /\ fnCalls = i
            /\ Len(waitLog) = i - 1
            /\ rl.pc = "thrown"
            /\ rl.outcome = Some(fnLog[i].error)

C2_Witness ==
    /\ rl.pc = "thrown"
    /\ Len(fnLog) = 1
    /\ fnCalls = 1
    /\ waitLog = << >>
    /\ fnLog[1].error.cls = "SDKError"
    /\ fnLog[1].error.status = Some(503)
    /\ fnLog[1].error.retryable
    /\ rl.cfg.enableRetry
    /\ N >= 1

C4_LastErrorPropagates ==
    (rl.pc = "thrown" /\ AllRateLimited /\ Len(fnLog) = N + 1) =>
        rl.outcome = Some(fnLog[Len(fnLog)].error)

C4_Witness ==
    /\ rl.pc = "thrown"
    /\ AllRateLimited
    /\ N >= 1
    /\ Len(fnLog) = N + 1
    /\ fnLog[N].error # fnLog[N + 1].error
    /\ rl.outcome = Some(fnLog[N + 1].error)

\* C5: with max retries = 0, or with retry disabled, the operation is invoked
\* exactly once whatever its outcome: no wait, no second invocation, and a
\* failure of the single attempt is what the call fails with.
C5_NoRetryPolicy ==
    (rl.pc # "idle" /\ (N = 0 \/ ~rl.cfg.enableRetry)) =>
        /\ fnCalls = 1
        /\ waitLog = << >>
        /\ rl.pc # "waiting"
        /\ Settled =>
             /\ Len(fnLog) = 1
             /\ FailedAt(1) => (rl.pc = "thrown" /\ rl.outcome = Some(fnLog[1].error))

C5_Witness ==
    /\ rl.pc = "thrown"
    /\ ~rl.cfg.enableRetry
    /\ N = MaxRetriesBound
    /\ fnCalls = 1
    /\ RateLimitedAt(1)

(***************************************************************************)
(* Claims about apiRequest, checked under Spec.                            *)
(***************************************************************************)
Started == call.ctl.pc # "idle"
Trace == call.trace

IsEmit(e) == e.op = "emit"
IsEmitOf(e, types) == e.op = "emit" /\ e.event.type \in types
IsFetch(e) == e.op = "fetch"
IsAnswer(e) == e.op \in { "response", "netfail" }
Is429(e) == e.op = "response" /\ e.response.status = 429
IsOkJson(e) ==
    e.op = "response" /\ ResponseOk(e.response) /\ e.response.body.kind = "json"
IsEmitOrWait(e) == e.op \in { "emit", "wait" }

\* the answers the transport gave to the attempts so far
Answers == SelectSeq(Trace, IsAnswer)
\* the events and the waits of the call, in order, by name
EventsAndWaits ==
    LET ew == SelectSeq(Trace, IsEmitOrWait)
    IN  [ i \in 1..Len(ew) |-> IF ew[i].op = "wait" THEN "wait" ELSE ew[i].event.type ]

RECURSIVE ErrorsAndWaits(_)
ErrorsAndWaits(k) ==
    IF k = 0 THEN << >> ELSE << "request_error", "wait" >> \o ErrorsAndWaits(k - 1)

\* what a call answered k times 429 (and then, if done, 200) shows
Expected(k, done) ==
    << "request_start" >> \o ErrorsAndWaits(k)
        \o (IF done THEN << "request_end" >> ELSE << >>)

\* the answers so far are k times 429, then possibly one 200 with a JSON body
RateLimitedThenOk(k) ==
    /\ k <= Len(Answers)
    /\ \A i \in 1..k : Is429(Answers[i])
    /\ \/ Len(Answers) = k
       \/ Len(Answers) = k + 1 /\ IsOkJson(Answers[k + 1])

\* the same, with every 429 body a JSON object
RateLimitedJsonThenOk(k) ==
    /\ RateLimitedThenOk(k)
    /\ \A i \in 1..k : Answers[i].response.body.kind = "json"

\* the shape of the call after k answers 429 and, if any, the final 200
ShapeAfter(k) ==
    LET done == Len(Answers) = k + 1
    IN  /\ EventsAndWaits = Expected(k, done)
        /\ \A i \in 1..Len(Trace) : IsEmit(Trace[i]) => Trace[i].sink # "dropped"
        /\ done => /\ call.ctl.pc = "returned"
                   /\ call.ctl.outcome[1].result = Answers[k + 1].response.body.data
        /\ ~done => call.ctl.pc \in { "calling", "waiting" }

\* C6: with telemetry enabled (and a policy that retries), a request answered
\* 429 on its first k attempts, k <= max retries, and 200 afterwards emits
\* request-start, then k request-error events each followed by one backoff
\* wait, then one request-end, and returns the parsed body; for k = 0 the
\* events are request-start, request-end.
C6_RateLimitedThenSucceeds ==
    (Started /\ config.enableTelemetry /\ call.ctl.cfg.enableRetry) =>
        \A k \in 0..call.ctl.cfg.maxRetries :
            RateLimitedThenOk(k) => ShapeAfter(k)

\* the part of C6 the code keeps: 429 answers whose body is a JSON object
C6_HoldsForJsonBodies ==
    (Started /\ config.enableTelemetry /\ call.ctl.cfg.enableRetry) =>
        \A k \in 0..call.ctl.cfg.maxRetries :
            RateLimitedJsonThenOk(k) => ShapeAfter(k)

C6_HoldsForJsonBodies_Witness ==
    /\ call.ctl.pc = "returned"
    /\ config.enableTelemetry
    /\ call.ctl.cfg.maxRetries >= 2
    /\ RateLimitedJsonThenOk(2)
    /\ Len(Answers) = 3

\* C7: every apiRequest call hands exactly one request-start event to the
\* sink, however many attempts are made; it is the first thing the call does,
\* before the first transport call and before any request-end or
\* request-error event; with telemetry enabled the sink passes it on.
C7_OneRequestStart ==
    Started =>
        /\ Len(Trace) >= 1
        /\ IsEmitOf(Trace[1], { "request_start" })
        /\ \A i \in 2..Len(Trace) : ~IsEmitOf(Trace[i], { "request_start" })
        /\ config.enableTelemetry => Trace[1].sink # "dropped"

C7_Witness ==
    /\ call.ctl.pc = "returned"
    /\ call.ctl.attempt >= 2
    /\ config.enableTelemetry
    /\ Len(SelectSeq(Trace, IsFetch)) = 3

\* the attempts of the call: the positions of its transport calls, and for
\* each the part of the trace up to the next attempt
Attempts == { i \in 1..Len(Trace) : IsFetch(Trace[i]) }
AttemptEnd(i) ==
    IF \E j \in Attempts : j > i
    THEN (CHOOSE j \in Attempts : j > i /\ \A l \in Attempts : l > i => j <= l) - 1
    ELSE Len(Trace)
AttemptOver(i) == \E j \in i..AttemptEnd(i) : IsAnswer(Trace[j])
OutcomeEvents(i) ==
    { j \in i..AttemptEnd(i) : IsEmitOf(Trace[j], { "request_end", "request_error" }) }

\* C8: every physical attempt of a call emits exactly one event out of
\* {request-end, request-error}, whatever its outcome: a success status, a
\* non-success status, a transport call that fails without a response.
C8_OneOutcomeEventPerAttempt ==
    \A i \in Attempts : AttemptOver(i) => Cardinality(OutcomeEvents(i)) = 1

\* the part of C8 the code keeps: the attempts that got a response
C8_HoldsForAnsweredAttempts ==
    \A i \in Attempts :
        (\E j \in i..AttemptEnd(i) : Trace[j].op = "response") =>
            Cardinality(OutcomeEvents(i)) = 1

\* C9: the auth token and the API version of a request are those current when
\* the call began: every attempt carries the Authorization and X-API-Version
\* headers of the first one, and every event the apiVersion of the
\* request-start event, which is also the version of the wire path.
C9_CapturedAtCallStart ==
    Started =>
        LET first == Trace[1].event
            f1 == CHOOSE i \in Attempts : \A l \in Attempts : i <= l
        IN  /\ \A i \in Attempts :
                 /\ Trace[i].headers = Trace[f1].headers
                 /\ Trace[i].headers.XAPIVersion = first.apiVersion
                 /\ Trace[i].path = first.path
            /\ \A i \in 1..Len(Trace) :
                 IsEmit(Trace[i]) =>
                     /\ Trace[i].event.apiVersion = first.apiVersion
                     /\ Trace[i].event.path = first.path
                     /\ Trace[i].event.path[2] = first.apiVersion

\* the part of C9 the code keeps: the wire path, captured when the call began
C9_HoldsForThePath ==
    Started =>
        /\ \A i \in Attempts : Trace[i].path = call.versionedPath
        /\ \A i \in 1..Len(Trace) :
             IsEmit(Trace[i]) => Trace[i].event.path = call.versionedPath

\* C10: every failure apiRequest surfaces to its caller is an error of the
\* taxonomy, with a code and a retryable flag; transport and parsing failures
\* are normalized.
C10_FailuresAreTyped ==
    call.ctl.pc = "thrown" =>
        /\ IsSDKError(call.ctl.outcome[1])
        /\ CodeOf(call.ctl.outcome[1]) \in ErrorCode
        /\ "retryable" \in DOMAIN call.ctl.outcome[1]

\* the part of C10 the code keeps: the failures built from a non-success
\* response
C10_HoldsForErrorResponses ==
    (call.ctl.pc = "thrown" /\ Len(Answers) > 0
       /\ Answers[Len(Answers)].op = "response"
       /\ ~ResponseOk(Answers[Len(Answers)].response)) =>
        /\ IsSDKError(call.ctl.outcome[1])
        /\ CodeOf(call.ctl.outcome[1]) \in ErrorCode

(***************************************************************************)
(* Claims about parseApiError, checked under SpecErr.                      *)
(***************************************************************************)
Parsed == perr.pc = "returned"
\* the text the call parsed: responseText || await response.text()
ParsedText ==
    IF IsSome(perr.responseText) /\ NonEmptyText(perr.responseText[1])
    THEN perr.responseText[1]
    ELSE perr.response.body
ParsedObject == ParsedText.kind = "json"
RetryAfterOf(e) == IF "retryAfter" \in DOMAIN e THEN e.retryAfter ELSE None
RetryAfterHeader == HeaderOf(perr.response, "retry-after")

\* C11: for every response with status 429, whatever its body, parseApiError
\* returns a rate-limit error, the kind of failure the retry controller
\* retries (here: under the default policy, at the first attempt).
C11_Every429IsRateLimitError ==
    (Parsed /\ perr.response.status = 429) =>
        /\ IsRateLimitError(perr.result)
        /\ ShouldRetry(perr.result, finalConfig(<< >>), 0)

\* the part of C11 the code keeps: bodies that are JSON objects
C11_HoldsForJsonObjects ==
    (Parsed /\ perr.response.status = 429 /\ ParsedObject) =>
        /\ IsRateLimitError(perr.result)
        /\ ShouldRetry(perr.result, finalConfig(<< >>), 0)

\* C12: a 429 response whose retry-after header holds the integer k gives a
\* rate-limit error whose retry-after is k; without the header the
\* retry-after of the error is absent.
C12_RetryAfterRoundTrip ==
    (Parsed /\ perr.response.status = 429) =>
        /\ \A k \in 0..MaxRetryAfter :
             RetryAfterHeader = Some(ToDigits(k)) =>
                 /\ IsRateLimitError(perr.result)
                 /\ RetryAfterOf(perr.result) = Some(k)
        /\ RetryAfterHeader = None => RetryAfterOf(perr.result) = None

\* the part of C12 the code keeps: JSON object bodies and k >= 1
C12_HoldsForJsonObjectsAndPositive ==
    (Parsed /\ perr.response.status = 429 /\ ParsedObject) =>
        /\ \A k \in 1..MaxRetryAfter :
             RetryAfterHeader = Some(ToDigits(k)) =>
                 /\ IsRateLimitError(perr.result)
                 /\ RetryAfterOf(perr.result) = Some(k)
        /\ RetryAfterHeader = None => RetryAfterOf(perr.result) = None

\* the table of the claim: status -> code
StatusTable(status) ==
    CASE status = 400 -> "invalid_parameters"
      [] status = 401 -> "unauthorized"
      [] status = 403 -> "forbidden"
      [] status = 404 -> "resource_not_found"
      [] status = 409 -> "conflict"
      [] status = 429 -> "rate_limited"
      [] status \in 500..599 -> "server_error"
      [] OTHER -> "unknown_error"

\* the code the parsed body carries, if it is one of the enumeration
BodyCode ==
    IF ParsedObject
    THEN LET c == Field(ParsedText.data, "code")
         IN  IF IsSome(c) /\ c[1] \in ErrorCode THEN c ELSE None
    ELSE None

\* C13: when the body carries no recognized code, the code of the error
\* follows the table 400, 401, 403, 404, 409, 429, every 5xx -> server-error,
\* any other status -> unknown.
C13_StatusTable ==
    (Parsed /\ BodyCode = None) =>
        CodeOf(perr.result) = StatusTable(perr.response.status)

\* the part of C13 the code keeps: the statuses the switch lists
C13_HoldsForListedStatuses ==
    (Parsed /\ BodyCode = None
       /\ perr.response.status \notin (500..599) \ { 500, 502, 503, 504 }) =>
        CodeOf(perr.result) = StatusTable(perr.response.status)

\* C14: for every error parseApiError builds, retryable is true iff the
\* status is 429 or in 500..599.
C14_RetryableIffStatus ==
    Parsed =>
        (RetryableFlag(perr.result) <=>
            (perr.response.status = 429 \/ perr.response.status \in 500..599))

\* the part of C14 the code keeps: all but auth errors with code token-expired
C14_HoldsButForTokenExpired ==
    (Parsed /\ ~(perr.result.cls = "AuthError"
                  /\ CodeOf(perr.result) = "token_expired")) =>
        (RetryableFlag(perr.result) <=>
            (perr.response.status = 429 \/ perr.response.status \in 500..599))

\* C15: for every non-success status, 429, 401 and 403 included, a JSON body
\* whose code is in the enumeration gives the error that code; when the body
\* code is no member, the status-mapped code is used.
C15_BodyCodePreferred ==
    (Parsed /\ ParsedObject) =>
        CodeOf(perr.result) =
            IF IsSome(BodyCode) THEN BodyCode[1]
            ELSE mapHttpStatusToErrorCode(perr.response.status, None)

\* the part of C15 the code keeps: every status but 429
C15_HoldsButFor429 ==
    (Parsed /\ ParsedObject /\ perr.response.status # 429) =>
        CodeOf(perr.result) =
            IF IsSome(BodyCode) THEN BodyCode[1]
            ELSE mapHttpStatusToErrorCode(perr.response.status, None)

\* C16: for a body that is no JSON (and not empty), parseApiError returns a
\* generic error with the status-mapped code that carries the raw text of
\* the body, as its message or in its details.
C16_NonJsonKeepsRawText ==
    (Parsed /\ ParsedText.kind = "text" /\ NonEmptyText(ParsedText)) =>
        /\ IsSDKError(perr.result)
        /\ CodeOf(perr.result) = mapHttpStatusToErrorCode(perr.response.status, None)
        /\ \/ perr.result.message = ParsedText.text
           \/ perr.result.details = Some([ rawError |-> Some(ParsedText.text) ])

\* the part of C16 the code keeps: the text handed over as responseText
C16_HoldsForGivenText ==
    (Parsed /\ ParsedText.kind = "text" /\ NonEmptyText(ParsedText)
       /\ perr.responseText = Some(ParsedText)) =>
        /\ IsSDKError(perr.result)
        /\ CodeOf(perr.result) = mapHttpStatusToErrorCode(perr.response.status, None)
        /\ perr.result.message = ParsedText.text

(***************************************************************************)
(* Claims about the backoff waits of withRateLimit, checked under SpecRL.  *)
(* waitLog[n] is the wait before retry attempt n; it follows the failure   *)
(* fnLog[n].                                                               *)
(***************************************************************************)
NoRetryAfterAt(n) == RetryAfterOf(fnLog[n].error) = None

\* C17: with jitter = 0 and no retry-after on the failure, the wait before
\* retry attempt n (1 <= n <= max retries) is min(baseDelay * 2^(n-1),
\* maxDelay); such waits never exceed maxDelay and do not decrease with n.
C17_ExponentialBackoff ==
    rl.cfg.jitter = 0 =>
        /\ Len(waitLog) <= rl.cfg.maxRetries
        /\ \A n \in 1..Len(waitLog) :
             NoRetryAfterAt(n) =>
                 /\ waitLog[n] = IF rl.cfg.baseDelay * (2 ^ (n - 1)) <= rl.cfg.maxDelay
                                 THEN rl.cfg.baseDelay * (2 ^ (n - 1))
                                 ELSE rl.cfg.maxDelay
                 /\ waitLog[n] <= rl.cfg.maxDelay
                 /\ \A m \in 1..n : NoRetryAfterAt(m) => waitLog[m] <= waitLog[n]

C17_Witness ==
    /\ rl.cfg.jitter = 0
    /\ Len(waitLog) = 2
    /\ NoRetryAfterAt(1) /\ NoRetryAfterAt(2)
    /\ waitLog[1] = rl.cfg.baseDelay
    /\ rl.cfg.baseDelay * 2 > rl.cfg.maxDelay
    /\ waitLog[2] = rl.cfg.maxDelay

\* the computed delays of retry attempt n, over the draws of Math.random()
ComputedDelays(n) == { delay(rl.cfg, n, rnd) : rnd \in RandSet }

\* C18: a rate-limited failure that carries a retry-after of k seconds is
\* followed by a wait of exactly k seconds (not the computed delay, not
\* scaled by jitter, not capped by maxDelay); one that carries none is
\* followed by the computed delay.
C18_RetryAfterOverrides ==
    \A n \in 1..Len(waitLog) :
        LET ra == RetryAfterOf(fnLog[n].error)
        IN  IF IsSome(ra) THEN waitLog[n] = ra[1] * 1000
            ELSE waitLog[n] \in ComputedDelays(n)

\* the part of C18 the code keeps: a retry-after of at least one second
C18_HoldsForPositive ==
    \A n \in 1..Len(waitLog) :
        LET ra == RetryAfterOf(fnLog[n].error)
        IN  IF IsSome(ra) /\ ra[1] >= 1 THEN waitLog[n] = ra[1] * 1000
            ELSE waitLog[n] \in ComputedDelays(n)

(***************************************************************************)
(* Claims about versioning, checked under SpecVer.                         *)
(***************************************************************************)
\* the path without its leading separators
RECURSIVE StripLeading(_)
StripLeading(p) ==
    IF Len(p) > 0 /\ p[1] = "/" THEN StripLeading(Tail(p)) ELSE p

\* C19: for every path (no, one or several leading separators) and version,
\* buildVersionedPath returns one separator, the version tag, one separator
\* and the path without leading separator; it is total.
C19_OneSeparatorVersionPath ==
    (ver.pc = "called" /\ IsSome(ver.wirePath)) =>
        ver.wirePath[1] = << "/", ver.version, "/" >> \o StripLeading(ver.path)

\* the part of C19 the code keeps: paths with at most one leading separator
C19_HoldsForAtMostOneLeading ==
    (ver.pc = "called" /\ IsSome(ver.wirePath)
       /\ ~(Len(ver.path) >= 2 /\ ver.path[1] = "/" /\ ver.path[2] = "/")) =>
        ver.wirePath[1] = << "/", ver.version, "/" >> \o StripLeading(ver.path)

\* a handler is registered for exactly the version asked for
HandlerRegistered ==
    ver.version \in DOMAIN ver.handlers /\ ver.handlers[ver.version] = "fn"

\* C20: versionSpecific runs exactly one implementation: the handler of
\* exactly that version if there is one, else the fallback if provided; else
\* it runs nothing and signals a configuration error of the taxonomy.
C20_DispatchByVersion ==
    (ver.pc = "called" /\ IsSome(ver.dispatched)) =>
        LET d == ver.dispatched[1]
        IN  IF HandlerRegistered
            THEN d.ok /\ d.ran = << << "handler", ver.version >> >>
            ELSE IF IsSome(ver.fallback)
            THEN d.ok /\ d.ran = << << "fallback" >> >>
            ELSE /\ ~d.ok
                 /\ d.ran = << >>
                 /\ IsSDKError(d.error)
                 /\ CodeOf(d.error) = "configuration_error"

\* the part of C20 the code keeps: which implementation runs, and that an
\* unhandled version without fallback fails
C20_HoldsForTheChoice ==
    (ver.pc = "called" /\ IsSome(ver.dispatched)) =>
        LET d == ver.dispatched[1]
        IN  IF HandlerRegistered
            THEN d.ok /\ d.ran = << << "handler", ver.version >> >>
            ELSE IF IsSome(ver.fallback)
            THEN d.ok /\ d.ran = << << "fallback" >> >>
            ELSE ~d.ok /\ d.ran = << >>

(***************************************************************************)
(* Claims about the module system, checked under SpecMod.                  *)
(***************************************************************************)
\* the last operation was client.module(name)
LookedUp == modOut.op = "module"
\* the names of the descriptors of a registry
NamesOf(registry) == { registry[k].name : k \in 1..Len(registry) }
\* the names client c loaded when it was constructed
LoadedNames(c) == DOMAIN clients[c].loaded
\* the factory invocations made with client c
FactoryCallsOf(c) == SelectSeq(factoryLog, LAMBDA e : e.client = c)

\* C21: module(name) for a name that is not among the client's loaded modules
\* fails with an error of the taxonomy whose code is module_not_found and
\* whose details enumerate the names of the loaded modules; it never returns
\* an undefined instance.
C21_UnknownModuleFails ==
    (LookedUp /\ modOut.name \notin LoadedNames(modOut.client)) =>
        /\ IsSome(modOut.thrown)
        /\ IsSDKError(modOut.thrown[1])
        /\ modOut.thrown[1].code = "module_not_found"
        /\ modOut.thrown[1].details = Some(clients[modOut.client].keys)

\* what the code does for such a name: it throws, but a plain Error, whose
\* message lists the loaded names, unless the name is one every object
\* inherits, which it returns
C21_ThrowsPlainErrorUnlessInherited ==
    (LookedUp /\ modOut.name \notin LoadedNames(modOut.client)) =>
        IF modOut.name \in ObjectPrototypeKeys
        THEN modOut.returned = Some([ kind |-> "inherited", key |-> modOut.name ])
        ELSE modOut.thrown =
                 Some(RawError("Error", "Module \"" \o modOut.name
                                        \o "\" not found. Available modules: "
                                        \o Join(clients[modOut.client].keys)))

\* C22: module(name) is a pure lookup: whatever module() calls were made, no
\* factory was invoked but by the constructions, every client's mapping is
\* the one it was constructed with, a successful call returns the instance
\* that mapping holds for the name, and a module registered after the client
\* was constructed is not in it.
C22_ModuleIsPureLookup ==
    /\ \A c \in 1..Len(clients) :
          /\ clients[c].modules = clients[c].loaded
          /\ Len(FactoryCallsOf(c)) = Len(clients[c].registry)
          /\ LoadedNames(c) \subseteq NamesOf(clients[c].registry)
    /\ Len(instances) = Len(factoryLog)
    /\ (LookedUp /\ modOut.name \in LoadedNames(modOut.client)) =>
          modOut.returned = Some([ kind |-> "instance",
                                   id |-> clients[modOut.client].loaded[modOut.name] ])

\* a module registered after the client was constructed is looked up, in vain
C22_Witness ==
    /\ LookedUp
    /\ IsSome(modOut.thrown)
    /\ modOut.name \in NamesOf(moduleRegistry)
    /\ modOut.name \notin NamesOf(clients[modOut.client].registry)

\* C23: the names in the registry are pairwise distinct; registering a name
\* already present fails and leaves the registry as it was.
C23_RegistryNamesDistinct ==
    /\ \A i, j \in 1..Len(moduleRegistry) :
          moduleRegistry[i].name = moduleRegistry[j].name => i = j
    /\ (modOut.op = "registerModule" /\ modOut.config.name \in NamesOf(modOut.before)) =>
          /\ IsSome(modOut.thrown)
          /\ moduleRegistry = modOut.before

\* a second descriptor, with another factory, was offered under a taken name
C23_Witness ==
    /\ modOut.op = "registerModule"
    /\ \E k \in 1..Len(modOut.before) :
          /\ modOut.before[k].name = modOut.config.name
          /\ modOut.before[k].factory # modOut.config.factory

AllowedNames(c) ==
    IF IsSome(clients[c].options.modules)
    THEN NamesOf(clients[c].registry) \cap clients[c].options.modules[1]
    ELSE NamesOf(clients[c].registry)

C26_AllowListDeterminesLoaded ==
    \A c \in 1..Len(clients) :
        /\ DOMAIN clients[c].modules = AllowedNames(c)
        /\ { instances[i].factory : i \in { i \in 1..Len(instances) : instances[i].client = c } }
              = { clients[c].registry[k].factory :
                    k \in { k \in 1..Len(clients[c].registry) :
                              clients[c].registry[k].name \in AllowedNames(c) } }

\* without an allow-list the claim holds
C26_HoldsWithoutAllowList ==
    \A c \in 1..Len(clients) :
        clients[c].options.modules = None => DOMAIN clients[c].modules = AllowedNames(c)

(***************************************************************************)
(* Claims about the analytics modules of two clients and the sink,         *)
(* checked under SpecAn.                                                   *)
(***************************************************************************)
AnalyticsOps == { "initialize", "enable", "disable" }

\* C25: module instances of two clients are independent: each client has its
\* own instances, and no operation on a module instance of one client
\* changes what the module instances of the other client receive.
C25_ClientsIndependent ==
    /\ \A c, d \in 1..Len(clients) :
          c # d => { clients[c].modules[n] : n \in DOMAIN clients[c].modules }
                     \cap { clients[d].modules[n] : n \in DOMAIN clients[d].modules } = { }
    /\ modOut.op \in AnalyticsOps =>
          \A j \in 1..Len(instances) :
              instances[j].client # modOut.client =>
                  (j \in Receivers(config, instances) <=> j \in modOut.before)

\* the part that holds: each client has its own instances, built by the
\* factories run for it
C25_HoldsForTheInstances ==
    \A c, d \in 1..Len(clients) :
        c # d => { clients[c].modules[n] : n \in DOMAIN clients[c].modules }
                   \cap { clients[d].modules[n] : n \in DOMAIN clients[d].modules } = { }

\* C27: configure called twice in a row with the same payload emits no
\* configuration-change event for the second call and leaves the
\* configuration as the first call left it.
C27_ConfigureIdempotent ==
    (modOut.op = "configure" /\ modOut.again) =>
        /\ modOut.events = << >>
        /\ config = modOut.before

\* the second of two configure calls with a payload that turns telemetry on
\* and sets a handler, while telemetry is on
C27_Witness ==
    /\ modOut.op = "configure"
    /\ modOut.again
    /\ "telemetryHandler" \in DOMAIN modOut.payload
    /\ config.enableTelemetry = TRUE

(***************************************************************************)
(* Claims about the sink and the request pipeline, checked under Spec.     *)
(***************************************************************************)
\* telemetry is on and the application's handler throws on every event
HandlerThrows ==
    config.enableTelemetry = TRUE /\ config.telemetryHandler = Some("throws")
CallSettled == call.ctl.pc \in { "returned", "thrown" }
IsLog(e) == e.op = "log"
\* the error makeRequest itself throws after the answer a
OwnError(a) ==
    IF a.op = "netfail" THEN RawError("TypeError", "Failed to fetch")
    ELSE IF ~ResponseOk(a.response) THEN parseApiError(a.response, None)
    ELSE RawError("SyntaxError", "Unexpected token in JSON")

Tokens == { "tokA", "tokB" }

\* one of the strings toks is among those an error carries
ErrorMentions(e, toks) ==
    \/ e.message \in toks
    \/ "requestId" \in DOMAIN e /\ IsSome(e.requestId) /\ e.requestId[1] \in toks
    \/ /\ "details" \in DOMAIN e
       /\ IsSome(e.details)
       /\ IF "rawError" \in DOMAIN e.details[1]
          THEN IsSome(e.details[1].rawError) /\ e.details[1].rawError[1] \in toks
          ELSE \E k \in DOMAIN e.details[1] : e.details[1][k] \in toks

\* one of the strings toks is among those a request event carries
EventMentions(ev, toks) ==
    \/ ev.type \in toks
    \/ ev.method \in toks
    \/ ev.apiVersion \in toks
    \/ \E k \in 1..Len(ev.path) : ev.path[k] \in toks
    \/ IsSome(ev.error) /\ ErrorMentions(ev.error[1], toks)

\* one of the strings toks is in the message or the data of a log call
LogMentions(l, toks) ==
    \/ \E k \in 1..Len(l.message) : l.message[k] \in toks
    \/ CASE l.data.kind = "object" ->
               \E k \in DOMAIN l.data.fields : l.data.fields[k] \in toks
         [] l.data.kind = "error" -> ErrorMentions(l.data.error, toks)
         [] l.data.kind = "event" -> EventMentions(l.data.event, toks)
         [] l.data.kind = "handlerError" ->
               ErrorMentions(l.data.error, toks) \/ EventMentions(l.data.event, toks)
         [] OTHER -> FALSE

\* C29: setAuthToken makes one debug-level log call and emits no event, and
\* no token value is in the message or the data of any log call, nor in any
\* emitted event, of the setters and of the apiRequest calls.
C29_TokenNeverLogged ==
    /\ lastSet.op = "setAuthToken" =>
          /\ Len(lastSet.logs) = 1
          /\ lastSet.logs[1].level = "debug"
          /\ lastSet.events = << >>
    /\ lastSet.op # "none" =>
          /\ \A i \in 1..Len(lastSet.logs) : ~LogMentions(lastSet.logs[i], Tokens)
          /\ \A i \in 1..Len(lastSet.events) : ~EventMentions(lastSet.events[i], Tokens)
    /\ \A i \in 1..Len(Trace) :
          /\ IsLog(Trace[i]) => ~LogMentions(Trace[i], Tokens)
          /\ IsEmit(Trace[i]) => ~EventMentions(Trace[i].event, Tokens)

\* the token was set and a request sent with it failed, which was logged and
\* reported to the sink
C29_Witness ==
    /\ lastSet.op = "setAuthToken"
    /\ \E i \in 1..Len(Trace) :
          /\ IsFetch(Trace[i])
          /\ Trace[i].headers.Authorization = authToken
          /\ \E j \in (i + 1)..Len(Trace) : IsLog(Trace[j]) /\ Trace[j].data.kind = "error"
          /\ \E j \in (i + 1)..Len(Trace) : IsEmitOf(Trace[j], { "request_error" })

(***************************************************************************)
(* Claims about the operation ids, checked under SpecIds.                  *)
(***************************************************************************)
\* C30: the operation ids handed out in the process are pairwise distinct,
\* and every attempt of a call carries the call's id in X-SDK-Operation-ID,
\* as does every request-start, request-end and request-error event of it.
C30_OperationIdsDistinct ==
    /\ \A i, j \in 1..Len(issuedIds) : issuedIds[i] = issuedIds[j] => i = j
    /\ Started =>
          /\ \E i \in 1..Len(issuedIds) : issuedIds[i] = call.operationId
          /\ \A i \in 1..Len(Trace) :
                /\ IsFetch(Trace[i]) => Trace[i].headers.XSDKOperationID = call.operationId
                /\ IsEmit(Trace[i]) => Trace[i].event.operationId = call.operationId

\* a call with two attempts, during which another call of the process got
\* its id
C30_Witness ==
    /\ Len(issuedIds) = 2
    /\ Started
    /\ call.operationId = issuedIds[1]
    /\ Len(SelectSeq(Trace, IsFetch)) >= 2
    /\ \E i \in 1..Len(Trace) : IsEmitOf(Trace[i], { "request_end" })

(***************************************************************************)
(* Claims about Observability.configure, checked under SpecObs.            *)
(***************************************************************************)
\* the last configure call turned telemetry on and installed handler h,
\* which was not installed before it and had never been called
Introduces(h) ==
    /\ modOut.op = "configure"
    /\ "enableTelemetry" \in DOMAIN modOut.payload
    /\ modOut.payload.enableTelemetry = TRUE
    /\ "telemetryHandler" \in DOMAIN modOut.payload
    /\ modOut.payload.telemetryHandler = Some(h)
    /\ modOut.before.telemetryHandler # Some(h)
    /\ \A i \in 1..modOut.callsBefore : sinkLog[i].handler # h

\* the last configure call turned telemetry off
TurnsOff ==
    /\ modOut.op = "configure"
    /\ "enableTelemetry" \in DOMAIN modOut.payload
    /\ modOut.payload.enableTelemetry = FALSE

\* C31: the configuration-change event is emitted under the merged
\* configuration.  A configure call that turns telemetry on and introduces
\* a handler calls that handler with its own configuration-change event, and
\* that is the first call the handler ever gets; a configure call that turns
\* telemetry off calls no handler.
C31_ConfigChangeAfterMerge ==
    /\ \A h \in ObsHandlers :
          Introduces(h) =>
            /\ Len(sinkLog) > modOut.callsBefore
            /\ sinkLog[modOut.callsBefore + 1].handler = h
            /\ sinkLog[modOut.callsBefore + 1].event =
                  [ type |-> "configuration_change",
                    changes |-> { k \in DOMAIN modOut.payload :
                                    modOut.before[k] # modOut.payload[k] } ]
            /\ "telemetryHandler" \in sinkLog[modOut.callsBefore + 1].event.changes
    /\ TurnsOff => \A i \in 1..Len(modOut.events) : modOut.events[i].handler = None

\* a handler is introduced after another handler was called, and gets its
\* first call
C31_Witness ==
    \E h \in ObsHandlers :
        /\ Introduces(h)
        /\ modOut.callsBefore >= 1
        /\ IsSome(modOut.before.telemetryHandler)
        /\ sinkLog[modOut.callsBefore + 1].handler = h

(***************************************************************************)
(* More claims about apiRequest, checked under Spec.                       *)
(***************************************************************************)
\* the call returned after n answers, the last of them the successful one
ReturnedAfter(n) == call.ctl.pc = "returned" /\ Len(Answers) = n

\* C32: when a call succeeds after at least one rate-limited attempt, the
\* result of the retry controller carries the headroom read from the
\* x-ratelimit-* headers of the failed attempt before it; when the first
\* attempt succeeds the headroom is absent.
C32_HeadroomOfPriorAttempt ==
    \A n \in 1..Len(Answers) :
        ReturnedAfter(n) =>
            call.ctl.outcome[1].rateLimit =
                IF n = 1 THEN None
                ELSE extractRateLimitInfo(Answers[n - 1].response.headers)

\* the part of C32 the code keeps: no headroom when no failed attempt's
\* answer carried any of the headers, and so when the first attempt succeeds
C32_HoldsWithoutHeaders ==
    \A n \in 1..Len(Answers) :
        (/\ ReturnedAfter(n)
         /\ \A i \in 1..(n - 1) : extractRateLimitInfo(Answers[i].response.headers) = None)
            => call.ctl.outcome[1].rateLimit = None

\* the events of the given type the call handed to emitEvent
EventsOf(type) == SelectSeq(Trace, LAMBDA e : IsEmitOf(e, { type }))

\* the request-error events the call emitted for answers 429
ErrorEventsFor429 ==
    SelectSeq(Trace, LAMBDA e : IsEmitOf(e, { "request_error" })
                                  /\ e.event.status = Some(429))

\* C33: with telemetry enabled, every attempt answered 429 is reported with
\* a rate-limit-hit event: the call has emitted as many rate-limit-hit events
\* as it got answers 429.
C33_RateLimitHitPerAttempt ==
    (Started /\ config.enableTelemetry = TRUE) =>
        Len(EventsOf("rate_limit_hit")) = Len(SelectSeq(Trace, Is429))

\* what the code does instead: one request-error event for every answer 429
C33_HoldsForRequestError ==
    (Started /\ config.enableTelemetry = TRUE) =>
        /\ Len(ErrorEventsFor429) = Len(SelectSeq(Trace, Is429))
        /\ \A i \in 1..Len(ErrorEventsFor429) : ErrorEventsFor429[i].sink # "dropped"

\* C34: a request-end event is emitted only for a call that succeeds: a
\* call that has emitted one has returned a result, and has not failed, not
\* even on a success response whose body cannot be parsed.
C34_RequestEndOnlyOnSuccess ==
    Len(EventsOf("request_end")) > 0 => call.ctl.pc = "returned"

\* the part of C34 the code keeps: success responses with a JSON body, and
\* no request-end event on any other answer
C34_HoldsForJsonBodies ==
    /\ Len(EventsOf("request_end")) <= 1
    /\ Len(EventsOf("request_end")) > 0 =>
          /\ ResponseOk(Answers[Len(Answers)].response)
          /\ IsOkJson(Answers[Len(Answers)]) => call.ctl.pc = "returned"
    /\ call.ctl.pc = "returned" => Len(EventsOf("request_end")) = 1

(***************************************************************************)
(* A claim about withRateLimit under any policy, checked under SpecPol.    *)
(***************************************************************************)
\* the error thrown after the while loop
TrailingError == RawError("Error", "Rate limit exceeded after maximum retries")

\* C35: under every policy that can be passed to withRateLimit the operation
\* is invoked at least once, and the call never ends with the trailing
\* generic error 'Rate limit exceeded after maximum retries'.
C35_InvokedAtLeastOnce ==
    rl.pc # "idle" =>
        /\ fnCalls >= 1
        /\ ~(rl.pc = "thrown" /\ rl.outcome = Some(TrailingError))

\* the part of C35 the code keeps: policies whose maxRetries is not negative
\* (checked under SpecRL and SpecPol)
C35_HoldsForNonNegative ==
    (rl.pc # "idle" /\ rl.cfg.maxRetries >= 0) =>
        /\ fnCalls >= 1
        /\ ~(rl.pc = "thrown" /\ rl.outcome = Some(TrailingError))

(***************************************************************************)
(* More claims about the analytics module, checked under SpecAn.           *)
(***************************************************************************)
\* the last operation was initialize with analytics enabled, on instance id
InitializedEnabled(id) ==
    /\ modOut.op = "initialize"
    /\ modOut.instance = id
    /\ instances[id].config.enabled

\* C36: after initialize() with analytics enabled (the default), the
\* module's telemetry handler is registered with the sink, telemetry is
\* turned on, and the flush timer is running when batching is enabled.
C36_InitializeRegistersHandler ==
    \A id \in 1..Len(instances) :
        InitializedEnabled(id) =>
            /\ config.enableTelemetry = TRUE
            /\ config.telemetryHandler = instances[id].telemetryHandler
            /\ instances[id].config.batchEvents => instances[id].flushTimer \in instances[id].timers

\* what the code does instead: the module counts itself enabled, and the
\* sink is left as it was
C36_InitializeLeavesSinkAlone ==
    \A id \in 1..Len(instances) :
        InitializedEnabled(id) =>
            /\ instances[id].isEnabled
            /\ modOut.events = << >>
            /\ config.telemetryHandler # instances[id].telemetryHandler

(***************************************************************************)
(* Claims about the analytics queue and its flush timer, checked under     *)
(* SpecQ.                                                                  *)
(***************************************************************************)
\* the analytics instance of SpecQ
Analytics == instances[1]

\* where the event taken as the n-th is: its places in the queue, in the
\* batches of the flushes awaited, and among the events persisted
PlacesInQueue(n) ==
    { i \in 1..Len(Analytics.eventQueue) : Analytics.eventQueue[i].id = n }
PlacesInFlight(n) ==
    { p \in (1..Len(Analytics.flushes)) \X (1..Analytics.made) :
        /\ p[2] <= Len(Analytics.flushes[p[1]].batch)
        /\ Analytics.flushes[p[1]].batch[p[2]].id = n }
PlacesPersisted(n) == { e \in Analytics.persisted : e.id = n }

\* the queue is in arrival order
QueueInOrder ==
    \A i, j \in 1..Len(Analytics.eventQueue) :
        i < j => Analytics.eventQueue[i].id < Analytics.eventQueue[j].id

\* C37: a failed flush loses and duplicates nothing.  Over any interleaving
\* of event arrivals and flushes, successful or failing, overlapping or
\* not, every event the module took is in exactly one place: in the queue,
\* in the batch of exactly one flush in flight, or persisted, and then sent
\* exactly once by a successful flush.
C37_EveryEventInOnePlace ==
    /\ \A n \in 1..Analytics.made :
          Cardinality(PlacesInQueue(n)) + Cardinality(PlacesInFlight(n))
              + Cardinality(PlacesPersisted(n)) = 1
    /\ Analytics.sent = Cardinality(Analytics.persisted)

\* two overlapping flushes have failed and put their batches back (the
\* queue is out of arrival order) while a third is in flight
C37_Witness ==
    /\ ~QueueInOrder
    /\ Len(Analytics.flushes) >= 1
    /\ Analytics.made = 3

\* C38: the analytics queue stays in arrival order: when flushes fail and
\* put their batches back, two overlapping flushes that both fail included,
\* the events in the queue are ordered by the time they were first queued.
C38_QueueInArrivalOrder == QueueInOrder

\* C39: persisting analytics events does not feed itself: with the module's
\* handler registered as the telemetry handler, the request that persists a
\* batch causes no new event to be queued.  Every event in the queue, in a
\* batch in flight or persisted is one the application produced.
C39_PersistDoesNotFeedItself ==
    /\ \A i \in 1..Len(Analytics.eventQueue) : Analytics.eventQueue[i].origin = "app"
    /\ \A k \in 1..Len(Analytics.flushes) :
          \A i \in 1..Len(Analytics.flushes[k].batch) :
              Analytics.flushes[k].batch[i].origin = "app"
    /\ \A e \in Analytics.persisted : e.origin = "app"

\* the events of the module's own requests that the module took
FedBack ==
    { e \in { Analytics.eventQueue[i] : i \in 1..Len(Analytics.eventQueue) }
             \cup UNION { { Analytics.flushes[k].batch[i] :
                              i \in 1..Len(Analytics.flushes[k].batch) } :
                          k \in 1..Len(Analytics.flushes) }
             \cup Analytics.persisted :
        e.origin = "persist" }

\* the part of C39 the code keeps: while the sink does not hand the events
\* of the process to the module, no event of its own requests is taken
C39_HoldsWhileNotRegistered ==
    [][ ~Reaches(config, Analytics, 1) => FedBack' = FedBack ]_vars

\* C40: at most one flush timer is pending at any time, and after disable()
\* has returned no flush timer is pending until enable() is called again.
C40_OneTimerNoneAfterDisable ==
    /\ Cardinality(Analytics.timers) <= 1
    /\ modOut.disabled => Analytics.timers = { }

\* the part of C40 the code keeps: at most one timer is pending, the one
\* the field holds, and none is set while the module counts itself disabled
C40_HoldsForOneTimer ==
    /\ Cardinality(Analytics.timers) <= 1
    /\ Analytics.timers \subseteq { Analytics.flushTimer }
    /\ [][ (~Analytics'.isEnabled) => Analytics'.timers \subseteq Analytics.timers ]_vars

====
